---- MODULE Spec2Model ----
(***************************************************************************)
(* State-pattern lifecycles of design-patterns/behavioral/state/           *)
(* state-examples.ts: Order, VendingMachine, AdvancedOrder, ContentDoc and *)
(* Subscription.  Every concrete state class is an operator that maps a    *)
(* method name and the owning context to the effect of the method body:    *)
(*   state   the class the context's `state` field holds after the call,   *)
(*   out     the lines the body writes with console.log, in order,         *)
(*   ret     the value the method returns ("undefined" for void methods),  *)
(*   threw   whether the body raises (no body has a throw statement).      *)
(* Turkish message texts are transliterated to ASCII.                      *)
(***************************************************************************)
EXTENDS Integers, Sequences, FiniteSets, TLC

VARIABLES order, machine, advOrder, paidOrder, doc, sub,
          console, returned, last, hist,
          now, timers, timerSeq, debounced, throttled, events,
          counters, pending, sent, notifications, callSeq,
          count, resolved,
          middlewares, response, requests, cache

\* The state-pattern script: its contexts, its output, its call records.
ctxVars == <<order, machine, advOrder, paidOrder, doc, sub,
             console, returned, last, hist>>

\* The timer-based wrappers (createDebounce, createThrottle) and the event
\* loop they run on.
loopVars == <<now, timers, timerSeq, debounced, throttled, events>>

\* NotificationService with its RateLimiter, senders and repository.
notifyVars == <<counters, pending, sent, notifications, callSeq>>

\* The closure of createAsyncCounter.
counterVars == <<count, resolved>>

\* MiddlewarePipeline with the services its middlewares use.
pipelineVars == <<middlewares, response, requests, cache>>

svcVars == <<notifyVars, counterVars, pipelineVars>>

vars == <<ctxVars, loopVars, svcVars>>

\* Bound on ContentDoc.version (doc.version++ is unbounded in the source).
MaxVersion == 3

\* Bound on the number of calls recorded in hist by the scenario specifications.
MaxCalls == 6

\* Bound on the number of calls recorded in hist when one document is driven.
MaxDocCalls == 7

\* Bounds of NotificationService: the sendNotification calls started, and
\* how many of them are suspended at an await at one time.
MaxNotifications == 11

MaxInFlight == 2

\* Bound on the getValue() readings recorded in a run of the async counter.
MaxReadings == 1

\* Bounds of the timer-based wrappers: the clock (in ticks), the delay or
\* limit passed to createDebounce / createThrottle, the calls of the wrapper.
MaxTime == 6

MaxDelay == 3

MaxWrappedCalls == 4

-----------------------------------------------------------------------------
(* Example 1: Order *)

OrderActions == {"pay", "ship"}

OrderVariants == {"Pending", "Paid", "Shipped"}

\* Pending with a ship() that ships the unpaid order.
Pending_shipsUnpaid(method, ctx) ==
  CASE method = "pay" ->
         [state |-> "Paid", out |-> << <<"  Odendi.">> >>,
          ret |-> "undefined", threw |-> FALSE]
    [] method = "ship" ->
         [state |-> "Shipped", out |-> << <<"  Once odeme alinmali.">> >>,
          ret |-> "undefined", threw |-> FALSE]
    [] method = "status" ->
         [state |-> ctx.state, out |-> <<>>,
          ret |-> "Beklemede", threw |-> FALSE]

Pending(method, ctx) ==
  CASE method = "pay" ->
         [state |-> "Paid", out |-> << <<"  Odendi.">> >>,
          ret |-> "undefined", threw |-> FALSE]
    [] method = "ship" ->
         [state |-> ctx.state, out |-> << <<"  Once odeme alinmali.">> >>,
          ret |-> "undefined", threw |-> FALSE]
    [] method = "status" ->
         [state |-> ctx.state, out |-> <<>>,
          ret |-> "Beklemede", threw |-> FALSE]

\* Paid with a pay() that falls through to the shipping transition.
Paid_payShips(method, ctx) ==
  CASE method = "pay" ->
         [state |-> "Shipped", out |-> << <<"  Zaten odendi.">> >>,
          ret |-> "undefined", threw |-> FALSE]
    [] method = "ship" ->
         [state |-> "Shipped", out |-> << <<"  Kargoya verildi.">> >>,
          ret |-> "undefined", threw |-> FALSE]
    [] method = "status" ->
         [state |-> ctx.state, out |-> <<>>,
          ret |-> "Odendi", threw |-> FALSE]

Paid(method, ctx) ==
  CASE method = "pay" ->
         [state |-> ctx.state, out |-> << <<"  Zaten odendi.">> >>,
          ret |-> "undefined", threw |-> FALSE]
    [] method = "ship" ->
         [state |-> "Shipped", out |-> << <<"  Kargoya verildi.">> >>,
          ret |-> "undefined", threw |-> FALSE]
    [] method = "status" ->
         [state |-> ctx.state, out |-> <<>>,
          ret |-> "Odendi", threw |-> FALSE]

\* Shipped with a pay() that puts the order back in Paid.
Shipped_payReopens(method, ctx) ==
  CASE method = "pay" ->
         [state |-> "Paid", out |-> <<>>,
          ret |-> "undefined", threw |-> FALSE]
    [] method = "ship" ->
         [state |-> ctx.state, out |-> << <<"  Zaten gonderildi.">> >>,
          ret |-> "undefined", threw |-> FALSE]
    [] method = "status" ->
         [state |-> ctx.state, out |-> <<>>,
          ret |-> "Gonderildi", threw |-> FALSE]

Shipped(method, ctx) ==
  CASE method = "pay" ->
         [state |-> ctx.state, out |-> <<>>,
          ret |-> "undefined", threw |-> FALSE]
    [] method = "ship" ->
         [state |-> ctx.state, out |-> << <<"  Zaten gonderildi.">> >>,
          ret |-> "undefined", threw |-> FALSE]
    [] method = "status" ->
         [state |-> ctx.state, out |-> <<>>,
          ret |-> "Gonderildi", threw |-> FALSE]

\* this.state.<method>(this): dynamic dispatch on the class of ctx.state.
OrderState(method, ctx) ==
  CASE ctx.state = "Pending" -> Pending(method, ctx)
    [] ctx.state = "Paid"    -> Paid(method, ctx)
    [] ctx.state = "Shipped" -> Shipped(method, ctx)

-----------------------------------------------------------------------------
(* Example 2: VendingMachine *)

VendingActions == {"insertCoin", "selectDrink"}

VendingVariants == {"NoCoin", "HasCoin"}

\* NoCoin whose selectDrink() hands out a drink.
NoCoin_freeDrink(method, m) ==
  CASE method = "insertCoin" ->
         [state |-> "HasCoin",
          out |-> << <<"  Para alindi. Icecek secebilirsiniz.">> >>,
          ret |-> "undefined", threw |-> FALSE]
    [] method = "selectDrink" ->
         [state |-> m.state, out |-> << <<"  Icecek verildi.">> >>,
          ret |-> "undefined", threw |-> FALSE]

NoCoin(method, m) ==
  CASE method = "insertCoin" ->
         [state |-> "HasCoin",
          out |-> << <<"  Para alindi. Icecek secebilirsiniz.">> >>,
          ret |-> "undefined", threw |-> FALSE]
    [] method = "selectDrink" ->
         [state |-> m.state, out |-> << <<"  Once para atin.">> >>,
          ret |-> "undefined", threw |-> FALSE]

\* HasCoin with an insertCoin() that drops back to NoCoin.
HasCoin_coinReturned(method, m) ==
  CASE method = "insertCoin" ->
         [state |-> "NoCoin",
          out |-> << <<"  Zaten para var. Icecek secin.">> >>,
          ret |-> "undefined", threw |-> FALSE]
    [] method = "selectDrink" ->
         [state |-> "NoCoin", out |-> << <<"  Icecek verildi.">> >>,
          ret |-> "undefined", threw |-> FALSE]

HasCoin(method, m) ==
  CASE method = "insertCoin" ->
         [state |-> m.state,
          out |-> << <<"  Zaten para var. Icecek secin.">> >>,
          ret |-> "undefined", threw |-> FALSE]
    [] method = "selectDrink" ->
         [state |-> "NoCoin", out |-> << <<"  Icecek verildi.">> >>,
          ret |-> "undefined", threw |-> FALSE]

VendingState(method, m) ==
  CASE m.state = "NoCoin"  -> NoCoin(method, m)
    [] m.state = "HasCoin" -> HasCoin(method, m)

-----------------------------------------------------------------------------
(* Example 3: AdvancedOrder *)

AdvancedOrderActions == {"cancel", "ship", "deliver", "refund"}

\* type AdvancedOrderStateName
AdvancedOrderStateName ==
  {"PENDING", "PAID", "PROCESSING", "SHIPPED", "DELIVERED", "CANCELLED",
   "REFUNDED"}

PendingAdv(method, ctx) ==
  CASE method = "cancel" ->
         [state |-> "CANCELLED",
          out |-> << <<"  [", ctx.orderId, "] Siparis iptal edildi.">> >>,
          ret |-> "undefined", threw |-> FALSE]
    [] method = "ship" ->
         [state |-> ctx.state, out |-> << <<"  Once odeme alinmali.">> >>,
          ret |-> "undefined", threw |-> FALSE]
    [] method = "deliver" ->
         [state |-> ctx.state, out |-> <<>>,
          ret |-> "undefined", threw |-> FALSE]
    [] method = "refund" ->
         [state |-> ctx.state,
          out |-> << <<"  Odenmemis siparis iade edilemez.">> >>,
          ret |-> "undefined", threw |-> FALSE]
    [] method = "status" ->
         [state |-> ctx.state, out |-> <<>>,
          ret |-> "PENDING", threw |-> FALSE]

\* PaidAdv whose cancel() moves to CancelledAdv instead of RefundedAdv.
PaidAdv_cancelCancels(method, ctx) ==
  CASE method = "cancel" ->
         [state |-> "CANCELLED",
          out |-> << <<"  [", ctx.orderId,
                       "] Iptal talebi alindi, iade islenecek.">> >>,
          ret |-> "undefined", threw |-> FALSE]
    [] method = "ship" ->
         [state |-> "SHIPPED",
          out |-> << <<"  [", ctx.orderId, "] Kargoya verildi.">> >>,
          ret |-> "undefined", threw |-> FALSE]
    [] method = "deliver" ->
         [state |-> ctx.state, out |-> << <<"  Once kargoya verilmeli.">> >>,
          ret |-> "undefined", threw |-> FALSE]
    [] method = "refund" ->
         [state |-> "REFUNDED",
          out |-> << <<"  [", ctx.orderId, "] Iade islendi (",
                       ToString(ctx.amount), " TL).">> >>,
          ret |-> "undefined", threw |-> FALSE]
    [] method = "status" ->
         [state |-> ctx.state, out |-> <<>>,
          ret |-> "PAID", threw |-> FALSE]

PaidAdv(method, ctx) ==
  CASE method = "cancel" ->
         [state |-> "REFUNDED",
          out |-> << <<"  [", ctx.orderId,
                       "] Iptal talebi alindi, iade islenecek.">> >>,
          ret |-> "undefined", threw |-> FALSE]
    [] method = "ship" ->
         [state |-> "SHIPPED",
          out |-> << <<"  [", ctx.orderId, "] Kargoya verildi.">> >>,
          ret |-> "undefined", threw |-> FALSE]
    [] method = "deliver" ->
         [state |-> ctx.state, out |-> << <<"  Once kargoya verilmeli.">> >>,
          ret |-> "undefined", threw |-> FALSE]
    [] method = "refund" ->
         [state |-> "REFUNDED",
          out |-> << <<"  [", ctx.orderId, "] Iade islendi (",
                       ToString(ctx.amount), " TL).">> >>,
          ret |-> "undefined", threw |-> FALSE]
    [] method = "status" ->
         [state |-> ctx.state, out |-> <<>>,
          ret |-> "PAID", threw |-> FALSE]

ProcessingAdv(method, ctx) ==
  CASE method = "cancel" ->
         [state |-> ctx.state,
          out |-> << <<"  Hazirlik asamasinda, iptal icin destek ile iletisime gecin.">> >>,
          ret |-> "undefined", threw |-> FALSE]
    [] method = "ship" ->
         [state |-> "SHIPPED",
          out |-> << <<"  [", ctx.orderId, "] Kargoya verildi.">> >>,
          ret |-> "undefined", threw |-> FALSE]
    [] method = "deliver" ->
         [state |-> ctx.state, out |-> << <<"  Henuz kargoya verilmedi.">> >>,
          ret |-> "undefined", threw |-> FALSE]
    [] method = "refund" ->
         [state |-> ctx.state,
          out |-> << <<"  Once iptal veya kargo sonrasi iade talebi olusturulmali.">> >>,
          ret |-> "undefined", threw |-> FALSE]
    [] method = "status" ->
         [state |-> ctx.state, out |-> <<>>,
          ret |-> "PROCESSING", threw |-> FALSE]

\* ShippedAdv with a cancel() that throws instead of reporting.
ShippedAdv_throwsOnCancel(method, ctx) ==
  CASE method = "cancel" ->
         [state |-> ctx.state,
          out |-> <<>>,
          ret |-> "undefined", threw |-> TRUE]
    [] method = "ship" ->
         [state |-> ctx.state, out |-> << <<"  Zaten kargoya verildi.">> >>,
          ret |-> "undefined", threw |-> FALSE]
    [] method = "deliver" ->
         [state |-> "DELIVERED",
          out |-> << <<"  [", ctx.orderId,
                       "] Teslim alindi olarak islendi.">> >>,
          ret |-> "undefined", threw |-> FALSE]
    [] method = "refund" ->
         [state |-> ctx.state,
          out |-> << <<"  Teslim sonrasi iade talebi olusturulabilir.">> >>,
          ret |-> "undefined", threw |-> FALSE]
    [] method = "status" ->
         [state |-> ctx.state, out |-> <<>>,
          ret |-> "SHIPPED", threw |-> FALSE]

ShippedAdv(method, ctx) ==
  CASE method = "cancel" ->
         [state |-> ctx.state,
          out |-> << <<"  Kargo yolda, iptal icin kargo iade edilmeli.">> >>,
          ret |-> "undefined", threw |-> FALSE]
    [] method = "ship" ->
         [state |-> ctx.state, out |-> << <<"  Zaten kargoya verildi.">> >>,
          ret |-> "undefined", threw |-> FALSE]
    [] method = "deliver" ->
         [state |-> "DELIVERED",
          out |-> << <<"  [", ctx.orderId,
                       "] Teslim alindi olarak islendi.">> >>,
          ret |-> "undefined", threw |-> FALSE]
    [] method = "refund" ->
         [state |-> ctx.state,
          out |-> << <<"  Teslim sonrasi iade talebi olusturulabilir.">> >>,
          ret |-> "undefined", threw |-> FALSE]
    [] method = "status" ->
         [state |-> ctx.state, out |-> <<>>,
          ret |-> "SHIPPED", threw |-> FALSE]

\* DeliveredAdv with a cancel() that cancels the delivered order.
DeliveredAdv_cancellable(method, ctx) ==
  CASE method = "cancel" ->
         [state |-> "CANCELLED",
          out |-> << <<"  Teslim edildi, iptal yapilamaz.">> >>,
          ret |-> "undefined", threw |-> FALSE]
    [] method = "ship" ->
         [state |-> ctx.state, out |-> <<>>,
          ret |-> "undefined", threw |-> FALSE]
    [] method = "deliver" ->
         [state |-> ctx.state, out |-> << <<"  Zaten teslim edildi.">> >>,
          ret |-> "undefined", threw |-> FALSE]
    [] method = "refund" ->
         [state |-> "REFUNDED",
          out |-> << <<"  [", ctx.orderId, "] Iade kabul edildi (",
                       ToString(ctx.amount), " TL).">> >>,
          ret |-> "undefined", threw |-> FALSE]
    [] method = "status" ->
         [state |-> ctx.state, out |-> <<>>,
          ret |-> "DELIVERED", threw |-> FALSE]

DeliveredAdv(method, ctx) ==
  CASE method = "cancel" ->
         [state |-> ctx.state,
          out |-> << <<"  Teslim edildi, iptal yapilamaz.">> >>,
          ret |-> "undefined", threw |-> FALSE]
    [] method = "ship" ->
         [state |-> ctx.state, out |-> <<>>,
          ret |-> "undefined", threw |-> FALSE]
    [] method = "deliver" ->
         [state |-> ctx.state, out |-> << <<"  Zaten teslim edildi.">> >>,
          ret |-> "undefined", threw |-> FALSE]
    [] method = "refund" ->
         [state |-> "REFUNDED",
          out |-> << <<"  [", ctx.orderId, "] Iade kabul edildi (",
                       ToString(ctx.amount), " TL).">> >>,
          ret |-> "undefined", threw |-> FALSE]
    [] method = "status" ->
         [state |-> ctx.state, out |-> <<>>,
          ret |-> "DELIVERED", threw |-> FALSE]

CancelledAdv(method, ctx) ==
  CASE method = "cancel" ->
         [state |-> ctx.state, out |-> << <<"  Zaten iptal edildi.">> >>,
          ret |-> "undefined", threw |-> FALSE]
    [] method \in {"ship", "deliver", "refund"} ->
         [state |-> ctx.state, out |-> <<>>,
          ret |-> "undefined", threw |-> FALSE]
    [] method = "status" ->
         [state |-> ctx.state, out |-> <<>>,
          ret |-> "CANCELLED", threw |-> FALSE]

\* RefundedAdv with a status() that returns a tag outside AdvancedOrderStateName.
RefundedAdv_statusTypo(method, ctx) ==
  CASE method \in {"cancel", "ship", "deliver"} ->
         [state |-> ctx.state, out |-> <<>>,
          ret |-> "undefined", threw |-> FALSE]
    [] method = "refund" ->
         [state |-> ctx.state, out |-> << <<"  Zaten iade edildi.">> >>,
          ret |-> "undefined", threw |-> FALSE]
    [] method = "status" ->
         [state |-> ctx.state, out |-> <<>>,
          ret |-> "REFUND", threw |-> FALSE]

RefundedAdv(method, ctx) ==
  CASE method \in {"cancel", "ship", "deliver"} ->
         [state |-> ctx.state, out |-> <<>>,
          ret |-> "undefined", threw |-> FALSE]
    [] method = "refund" ->
         [state |-> ctx.state, out |-> << <<"  Zaten iade edildi.">> >>,
          ret |-> "undefined", threw |-> FALSE]
    [] method = "status" ->
         [state |-> ctx.state, out |-> <<>>,
          ret |-> "REFUNDED", threw |-> FALSE]

AdvancedOrderState(method, ctx) ==
  CASE ctx.state = "PENDING"    -> PendingAdv(method, ctx)
    [] ctx.state = "PAID"       -> PaidAdv(method, ctx)
    [] ctx.state = "PROCESSING" -> ProcessingAdv(method, ctx)
    [] ctx.state = "SHIPPED"    -> ShippedAdv(method, ctx)
    [] ctx.state = "DELIVERED"  -> DeliveredAdv(method, ctx)
    [] ctx.state = "CANCELLED"  -> CancelledAdv(method, ctx)
    [] ctx.state = "REFUNDED"   -> RefundedAdv(method, ctx)

-----------------------------------------------------------------------------
(* Example 4: ContentDoc.  Results carry the version the body leaves in     *)
(* doc.version; reject's optional reason is "" when the argument is absent *)
(* (an absent and an empty reason are both falsy in the template).         *)

DocumentActions == {"submit", "approve", "reject", "publish"}

\* type DocumentStateName
DocumentStateName == {"DRAFT", "IN_REVIEW", "APPROVED", "REJECTED", "PUBLISHED"}

\* Draft whose submit() also increments the version.
Draft_submitBumps(method, d, reason) ==
  CASE method = "submit" ->
         [state |-> "IN_REVIEW", version |-> d.version + 1,
          out |-> << <<"  [", d.title, "] Incelemeye gonderildi.">> >>,
          ret |-> "undefined", threw |-> FALSE]
    [] method = "approve" ->
         [state |-> d.state, version |-> d.version,
          out |-> << <<"  Taslak onaylanamaz, once gonderin.">> >>,
          ret |-> "undefined", threw |-> FALSE]
    [] method = "reject" ->
         [state |-> d.state, version |-> d.version,
          out |-> << <<"  Taslak reddedilemez.">> >>,
          ret |-> "undefined", threw |-> FALSE]
    [] method = "publish" ->
         [state |-> d.state, version |-> d.version,
          out |-> << <<"  Yayinlamak icin once onay alinmali.">> >>,
          ret |-> "undefined", threw |-> FALSE]
    [] method = "status" ->
         [state |-> d.state, version |-> d.version, out |-> <<>>,
          ret |-> "DRAFT", threw |-> FALSE]

Draft(method, d, reason) ==
  CASE method = "submit" ->
         [state |-> "IN_REVIEW", version |-> d.version,
          out |-> << <<"  [", d.title, "] Incelemeye gonderildi.">> >>,
          ret |-> "undefined", threw |-> FALSE]
    [] method = "approve" ->
         [state |-> d.state, version |-> d.version,
          out |-> << <<"  Taslak onaylanamaz, once gonderin.">> >>,
          ret |-> "undefined", threw |-> FALSE]
    [] method = "reject" ->
         [state |-> d.state, version |-> d.version,
          out |-> << <<"  Taslak reddedilemez.">> >>,
          ret |-> "undefined", threw |-> FALSE]
    [] method = "publish" ->
         [state |-> d.state, version |-> d.version,
          out |-> << <<"  Yayinlamak icin once onay alinmali.">> >>,
          ret |-> "undefined", threw |-> FALSE]
    [] method = "status" ->
         [state |-> d.state, version |-> d.version, out |-> <<>>,
          ret |-> "DRAFT", threw |-> FALSE]

\* InReview with a reject() that only rejects when a reason is given.
InReview_needsReason(method, d, reason) ==
  CASE method = "submit" ->
         [state |-> d.state, version |-> d.version,
          out |-> << <<"  Zaten incelemede.">> >>,
          ret |-> "undefined", threw |-> FALSE]
    [] method = "approve" ->
         [state |-> "APPROVED", version |-> d.version,
          out |-> << <<"  [", d.title, "] Onaylandi.">> >>,
          ret |-> "undefined", threw |-> FALSE]
    [] method = "reject" ->
         [state |-> IF reason # "" THEN "REJECTED" ELSE d.state, version |-> d.version,
          out |-> << <<"  [", d.title, "] Reddedildi",
                       IF reason # "" THEN ": " \o reason ELSE ".">> >>,
          ret |-> "undefined", threw |-> FALSE]
    [] method = "publish" ->
         [state |-> d.state, version |-> d.version,
          out |-> << <<"  Once onaylanmali.">> >>,
          ret |-> "undefined", threw |-> FALSE]
    [] method = "status" ->
         [state |-> d.state, version |-> d.version, out |-> <<>>,
          ret |-> "IN_REVIEW", threw |-> FALSE]

InReview(method, d, reason) ==
  CASE method = "submit" ->
         [state |-> d.state, version |-> d.version,
          out |-> << <<"  Zaten incelemede.">> >>,
          ret |-> "undefined", threw |-> FALSE]
    [] method = "approve" ->
         [state |-> "APPROVED", version |-> d.version,
          out |-> << <<"  [", d.title, "] Onaylandi.">> >>,
          ret |-> "undefined", threw |-> FALSE]
    [] method = "reject" ->
         [state |-> "REJECTED", version |-> d.version,
          out |-> << <<"  [", d.title, "] Reddedildi",
                       IF reason # "" THEN ": " \o reason ELSE ".">> >>,
          ret |-> "undefined", threw |-> FALSE]
    [] method = "publish" ->
         [state |-> d.state, version |-> d.version,
          out |-> << <<"  Once onaylanmali.">> >>,
          ret |-> "undefined", threw |-> FALSE]
    [] method = "status" ->
         [state |-> d.state, version |-> d.version, out |-> <<>>,
          ret |-> "IN_REVIEW", threw |-> FALSE]

\* Approved with a submit() that takes the document back to review.
Approved_submitReopens(method, d, reason) ==
  CASE method = "submit" ->
         [state |-> "IN_REVIEW", version |-> d.version, out |-> <<>>,
          ret |-> "undefined", threw |-> FALSE]
    [] method = "approve" ->
         [state |-> d.state, version |-> d.version,
          out |-> << <<"  Zaten onayli.">> >>,
          ret |-> "undefined", threw |-> FALSE]
    [] method = "reject" ->
         [state |-> d.state, version |-> d.version,
          out |-> << <<"  Onayli dokuman reddedilemez; revizyon icin taslaga alin.">> >>,
          ret |-> "undefined", threw |-> FALSE]
    [] method = "publish" ->
         [state |-> "PUBLISHED", version |-> d.version,
          out |-> << <<"  [", d.title, "] v", ToString(d.version),
                       " yayinlandi.">> >>,
          ret |-> "undefined", threw |-> FALSE]
    [] method = "status" ->
         [state |-> d.state, version |-> d.version, out |-> <<>>,
          ret |-> "APPROVED", threw |-> FALSE]

Approved(method, d, reason) ==
  CASE method = "submit" ->
         [state |-> d.state, version |-> d.version, out |-> <<>>,
          ret |-> "undefined", threw |-> FALSE]
    [] method = "approve" ->
         [state |-> d.state, version |-> d.version,
          out |-> << <<"  Zaten onayli.">> >>,
          ret |-> "undefined", threw |-> FALSE]
    [] method = "reject" ->
         [state |-> d.state, version |-> d.version,
          out |-> << <<"  Onayli dokuman reddedilemez; revizyon icin taslaga alin.">> >>,
          ret |-> "undefined", threw |-> FALSE]
    [] method = "publish" ->
         [state |-> "PUBLISHED", version |-> d.version,
          out |-> << <<"  [", d.title, "] v", ToString(d.version),
                       " yayinlandi.">> >>,
          ret |-> "undefined", threw |-> FALSE]
    [] method = "status" ->
         [state |-> d.state, version |-> d.version, out |-> <<>>,
          ret |-> "APPROVED", threw |-> FALSE]

\* Rejected with a submit() that sends the revision straight back to review.
Rejected_resubmits(method, d, reason) ==
  CASE method = "submit" ->
         [state |-> "IN_REVIEW", version |-> d.version + 1,
          out |-> << <<"  [", d.title, "] Revizyon v", ToString(d.version + 1),
                       " taslak olarak guncellendi.">> >>,
          ret |-> "undefined", threw |-> FALSE]
    [] method = "approve" ->
         [state |-> d.state, version |-> d.version,
          out |-> << <<"  Reddedilen dokuman tekrar incelemeye gonderilmeli.">> >>,
          ret |-> "undefined", threw |-> FALSE]
    [] method = "reject" ->
         [state |-> d.state, version |-> d.version,
          out |-> << <<"  Zaten reddedildi.">> >>,
          ret |-> "undefined", threw |-> FALSE]
    [] method = "publish" ->
         [state |-> d.state, version |-> d.version,
          out |-> << <<"  Reddedilen dokuman yayinlanamaz.">> >>,
          ret |-> "undefined", threw |-> FALSE]
    [] method = "status" ->
         [state |-> d.state, version |-> d.version, out |-> <<>>,
          ret |-> "REJECTED", threw |-> FALSE]

\* Rejected whose approve() moves to Approved.
Rejected_approvable(method, d, reason) ==
  CASE method = "submit" ->
         [state |-> "DRAFT", version |-> d.version + 1,
          out |-> << <<"  [", d.title, "] Revizyon v", ToString(d.version + 1),
                       " taslak olarak guncellendi.">> >>,
          ret |-> "undefined", threw |-> FALSE]
    [] method = "approve" ->
         [state |-> "APPROVED", version |-> d.version,
          out |-> << <<"  Reddedilen dokuman tekrar incelemeye gonderilmeli.">> >>,
          ret |-> "undefined", threw |-> FALSE]
    [] method = "reject" ->
         [state |-> d.state, version |-> d.version,
          out |-> << <<"  Zaten reddedildi.">> >>,
          ret |-> "undefined", threw |-> FALSE]
    [] method = "publish" ->
         [state |-> d.state, version |-> d.version,
          out |-> << <<"  Reddedilen dokuman yayinlanamaz.">> >>,
          ret |-> "undefined", threw |-> FALSE]
    [] method = "status" ->
         [state |-> d.state, version |-> d.version, out |-> <<>>,
          ret |-> "REJECTED", threw |-> FALSE]

Rejected(method, d, reason) ==
  CASE method = "submit" ->
         [state |-> "DRAFT", version |-> d.version + 1,
          out |-> << <<"  [", d.title, "] Revizyon v", ToString(d.version + 1),
                       " taslak olarak guncellendi.">> >>,
          ret |-> "undefined", threw |-> FALSE]
    [] method = "approve" ->
         [state |-> d.state, version |-> d.version,
          out |-> << <<"  Reddedilen dokuman tekrar incelemeye gonderilmeli.">> >>,
          ret |-> "undefined", threw |-> FALSE]
    [] method = "reject" ->
         [state |-> d.state, version |-> d.version,
          out |-> << <<"  Zaten reddedildi.">> >>,
          ret |-> "undefined", threw |-> FALSE]
    [] method = "publish" ->
         [state |-> d.state, version |-> d.version,
          out |-> << <<"  Reddedilen dokuman yayinlanamaz.">> >>,
          ret |-> "undefined", threw |-> FALSE]
    [] method = "status" ->
         [state |-> d.state, version |-> d.version, out |-> <<>>,
          ret |-> "REJECTED", threw |-> FALSE]

Published(method, d, reason) ==
  CASE method \in {"submit", "approve", "reject"} ->
         [state |-> d.state, version |-> d.version, out |-> <<>>,
          ret |-> "undefined", threw |-> FALSE]
    [] method = "publish" ->
         [state |-> d.state, version |-> d.version,
          out |-> << <<"  Zaten yayinda.">> >>,
          ret |-> "undefined", threw |-> FALSE]
    [] method = "status" ->
         [state |-> d.state, version |-> d.version, out |-> <<>>,
          ret |-> "PUBLISHED", threw |-> FALSE]

DocumentState(method, d, reason) ==
  CASE d.state = "DRAFT"     -> Draft(method, d, reason)
    [] d.state = "IN_REVIEW" -> InReview(method, d, reason)
    [] d.state = "APPROVED"  -> Approved(method, d, reason)
    [] d.state = "REJECTED"  -> Rejected(method, d, reason)
    [] d.state = "PUBLISHED" -> Published(method, d, reason)

-----------------------------------------------------------------------------
(* Example 5: Subscription *)

SubscriptionActions == {"activate", "charge", "paymentFailed", "suspend", "cancel"}

\* type SubscriptionStateName
SubscriptionStateName == {"TRIAL", "ACTIVE", "PAST_DUE", "SUSPENDED", "CANCELLED"}

\* Trial with a status() that ends the trial as a side effect.
Trial_statusActivates(method, s) ==
  CASE method = "activate" ->
         [state |-> "ACTIVE",
          out |-> << <<"  [", s.planId, "] Deneme bitti, abonelik aktif.">> >>,
          ret |-> "undefined", threw |-> FALSE]
    [] method = "charge" ->
         [state |-> s.state,
          out |-> << <<"  Deneme suresinde ucret alinmaz.">> >>,
          ret |-> FALSE, threw |-> FALSE]
    [] method = "paymentFailed" ->
         [state |-> s.state,
          out |-> <<>>,
          ret |-> "undefined", threw |-> FALSE]
    [] method = "suspend" ->
         [state |-> s.state,
          out |-> << <<"  Deneme askiya alinamaz.">> >>,
          ret |-> "undefined", threw |-> FALSE]
    [] method = "cancel" ->
         [state |-> "CANCELLED",
          out |-> << <<"  [", s.planId, "] Deneme iptal edildi.">> >>,
          ret |-> "undefined", threw |-> FALSE]
    [] method = "status" ->
         [state |-> "ACTIVE",
          out |-> <<>>,
          ret |-> "TRIAL", threw |-> FALSE]

Trial(method, s) ==
  CASE method = "activate" ->
         [state |-> "ACTIVE",
          out |-> << <<"  [", s.planId, "] Deneme bitti, abonelik aktif.">> >>,
          ret |-> "undefined", threw |-> FALSE]
    [] method = "charge" ->
         [state |-> s.state,
          out |-> << <<"  Deneme suresinde ucret alinmaz.">> >>,
          ret |-> FALSE, threw |-> FALSE]
    [] method = "paymentFailed" ->
         [state |-> s.state,
          out |-> <<>>,
          ret |-> "undefined", threw |-> FALSE]
    [] method = "suspend" ->
         [state |-> s.state,
          out |-> << <<"  Deneme askiya alinamaz.">> >>,
          ret |-> "undefined", threw |-> FALSE]
    [] method = "cancel" ->
         [state |-> "CANCELLED",
          out |-> << <<"  [", s.planId, "] Deneme iptal edildi.">> >>,
          ret |-> "undefined", threw |-> FALSE]
    [] method = "status" ->
         [state |-> s.state,
          out |-> <<>>,
          ret |-> "TRIAL", threw |-> FALSE]

\* ActiveSub whose cancel() moves to SuspendedSub.
ActiveSub_cancelSuspends(method, s) ==
  CASE method = "activate" ->
         [state |-> s.state,
          out |-> << <<"  Zaten aktif.">> >>,
          ret |-> "undefined", threw |-> FALSE]
    [] method = "charge" ->
         [state |-> s.state,
          out |-> << <<"  [", s.planId, "] Odeme alindi (fatura gunu: ", ToString(s.billingDay), ").">> >>,
          ret |-> TRUE, threw |-> FALSE]
    [] method = "paymentFailed" ->
         [state |-> "PAST_DUE",
          out |-> << <<"  [", s.planId, "] Odeme basarisiz, hatirlatma gonderildi.">> >>,
          ret |-> "undefined", threw |-> FALSE]
    [] method = "suspend" ->
         [state |-> "SUSPENDED",
          out |-> << <<"  [", s.planId, "] Abonelik askiya alindi.">> >>,
          ret |-> "undefined", threw |-> FALSE]
    [] method = "cancel" ->
         [state |-> "SUSPENDED",
          out |-> << <<"  [", s.planId, "] Iptal edildi, donem sonuna kadar erisim devam eder.">> >>,
          ret |-> "undefined", threw |-> FALSE]
    [] method = "status" ->
         [state |-> s.state,
          out |-> <<>>,
          ret |-> "ACTIVE", threw |-> FALSE]

ActiveSub(method, s) ==
  CASE method = "activate" ->
         [state |-> s.state,
          out |-> << <<"  Zaten aktif.">> >>,
          ret |-> "undefined", threw |-> FALSE]
    [] method = "charge" ->
         [state |-> s.state,
          out |-> << <<"  [", s.planId, "] Odeme alindi (fatura gunu: ", ToString(s.billingDay), ").">> >>,
          ret |-> TRUE, threw |-> FALSE]
    [] method = "paymentFailed" ->
         [state |-> "PAST_DUE",
          out |-> << <<"  [", s.planId, "] Odeme basarisiz, hatirlatma gonderildi.">> >>,
          ret |-> "undefined", threw |-> FALSE]
    [] method = "suspend" ->
         [state |-> "SUSPENDED",
          out |-> << <<"  [", s.planId, "] Abonelik askiya alindi.">> >>,
          ret |-> "undefined", threw |-> FALSE]
    [] method = "cancel" ->
         [state |-> "CANCELLED",
          out |-> << <<"  [", s.planId, "] Iptal edildi, donem sonuna kadar erisim devam eder.">> >>,
          ret |-> "undefined", threw |-> FALSE]
    [] method = "status" ->
         [state |-> s.state,
          out |-> <<>>,
          ret |-> "ACTIVE", threw |-> FALSE]

\* PastDueSub whose charge() reports success without moving to ActiveSub.
PastDueSub_chargeStays(method, s) ==
  CASE method = "activate" ->
         [state |-> s.state,
          out |-> << <<"  Once odeme yapilmali.">> >>,
          ret |-> "undefined", threw |-> FALSE]
    [] method = "charge" ->
         [state |-> s.state,
          out |-> << <<"  [", s.planId, "] Odeme alindi, abonelik tekrar aktif.">> >>,
          ret |-> TRUE, threw |-> FALSE]
    [] method = "paymentFailed" ->
         [state |-> "SUSPENDED",
          out |-> << <<"  [", s.planId, "] Tekrarlayan odeme hatasi, abonelik askiya alindi.">> >>,
          ret |-> "undefined", threw |-> FALSE]
    [] method = "suspend" ->
         [state |-> "SUSPENDED",
          out |-> <<>>,
          ret |-> "undefined", threw |-> FALSE]
    [] method = "cancel" ->
         [state |-> "CANCELLED",
          out |-> <<>>,
          ret |-> "undefined", threw |-> FALSE]
    [] method = "status" ->
         [state |-> s.state,
          out |-> <<>>,
          ret |-> "PAST_DUE", threw |-> FALSE]

PastDueSub(method, s) ==
  CASE method = "activate" ->
         [state |-> s.state,
          out |-> << <<"  Once odeme yapilmali.">> >>,
          ret |-> "undefined", threw |-> FALSE]
    [] method = "charge" ->
         [state |-> "ACTIVE",
          out |-> << <<"  [", s.planId, "] Odeme alindi, abonelik tekrar aktif.">> >>,
          ret |-> TRUE, threw |-> FALSE]
    [] method = "paymentFailed" ->
         [state |-> "SUSPENDED",
          out |-> << <<"  [", s.planId, "] Tekrarlayan odeme hatasi, abonelik askiya alindi.">> >>,
          ret |-> "undefined", threw |-> FALSE]
    [] method = "suspend" ->
         [state |-> "SUSPENDED",
          out |-> <<>>,
          ret |-> "undefined", threw |-> FALSE]
    [] method = "cancel" ->
         [state |-> "CANCELLED",
          out |-> <<>>,
          ret |-> "undefined", threw |-> FALSE]
    [] method = "status" ->
         [state |-> s.state,
          out |-> <<>>,
          ret |-> "PAST_DUE", threw |-> FALSE]

\* SuspendedSub with a paymentFailed() that cancels the subscription.
SuspendedSub_failCancels(method, s) ==
  CASE method = "activate" ->
         [state |-> s.state,
          out |-> << <<"  Once odeme yapip aski kaldirilmali.">> >>,
          ret |-> "undefined", threw |-> FALSE]
    [] method = "charge" ->
         [state |-> "ACTIVE",
          out |-> << <<"  [", s.planId, "] Odeme alindi, abonelik yeniden aktif.">> >>,
          ret |-> TRUE, threw |-> FALSE]
    [] method = "paymentFailed" ->
         [state |-> "CANCELLED",
          out |-> <<>>,
          ret |-> "undefined", threw |-> FALSE]
    [] method = "suspend" ->
         [state |-> s.state,
          out |-> << <<"  Zaten askida.">> >>,
          ret |-> "undefined", threw |-> FALSE]
    [] method = "cancel" ->
         [state |-> "CANCELLED",
          out |-> <<>>,
          ret |-> "undefined", threw |-> FALSE]
    [] method = "status" ->
         [state |-> s.state,
          out |-> <<>>,
          ret |-> "SUSPENDED", threw |-> FALSE]

SuspendedSub(method, s) ==
  CASE method = "activate" ->
         [state |-> s.state,
          out |-> << <<"  Once odeme yapip aski kaldirilmali.">> >>,
          ret |-> "undefined", threw |-> FALSE]
    [] method = "charge" ->
         [state |-> "ACTIVE",
          out |-> << <<"  [", s.planId, "] Odeme alindi, abonelik yeniden aktif.">> >>,
          ret |-> TRUE, threw |-> FALSE]
    [] method = "paymentFailed" ->
         [state |-> s.state,
          out |-> <<>>,
          ret |-> "undefined", threw |-> FALSE]
    [] method = "suspend" ->
         [state |-> s.state,
          out |-> << <<"  Zaten askida.">> >>,
          ret |-> "undefined", threw |-> FALSE]
    [] method = "cancel" ->
         [state |-> "CANCELLED",
          out |-> <<>>,
          ret |-> "undefined", threw |-> FALSE]
    [] method = "status" ->
         [state |-> s.state,
          out |-> <<>>,
          ret |-> "SUSPENDED", threw |-> FALSE]

\* CancelledSub with an activate() that revives the subscription.
CancelledSub_reactivates(method, s) ==
  CASE method = "activate" ->
         [state |-> "ACTIVE",
          out |-> <<>>,
          ret |-> "undefined", threw |-> FALSE]
    [] method \in {"paymentFailed", "suspend"} ->
         [state |-> s.state,
          out |-> <<>>,
          ret |-> "undefined", threw |-> FALSE]
    [] method = "charge" ->
         [state |-> s.state,
          out |-> <<>>,
          ret |-> FALSE, threw |-> FALSE]
    [] method = "cancel" ->
         [state |-> s.state,
          out |-> << <<"  Zaten iptal edildi.">> >>,
          ret |-> "undefined", threw |-> FALSE]
    [] method = "status" ->
         [state |-> s.state,
          out |-> <<>>,
          ret |-> "CANCELLED", threw |-> FALSE]

CancelledSub(method, s) ==
  CASE method \in {"activate", "paymentFailed", "suspend"} ->
         [state |-> s.state,
          out |-> <<>>,
          ret |-> "undefined", threw |-> FALSE]
    [] method = "charge" ->
         [state |-> s.state,
          out |-> <<>>,
          ret |-> FALSE, threw |-> FALSE]
    [] method = "cancel" ->
         [state |-> s.state,
          out |-> << <<"  Zaten iptal edildi.">> >>,
          ret |-> "undefined", threw |-> FALSE]
    [] method = "status" ->
         [state |-> s.state,
          out |-> <<>>,
          ret |-> "CANCELLED", threw |-> FALSE]

SubscriptionState(method, s) ==
  CASE s.state = "TRIAL"     -> Trial(method, s)
    [] s.state = "ACTIVE"    -> ActiveSub(method, s)
    [] s.state = "PAST_DUE"  -> PastDueSub(method, s)
    [] s.state = "SUSPENDED" -> SuspendedSub(method, s)
    [] s.state = "CANCELLED" -> CancelledSub(method, s)

-----------------------------------------------------------------------------
(* The contexts the script constructs (new Order(new Pending()), ...).     *)
(* amount is held in hundredths of a lira (299.99 TL = 29999).             *)

new_order == [state |-> "Pending"]

new_machine == [state |-> "NoCoin"]

new_advOrder == [state |-> "PENDING", orderId |-> "ORD-101", amount |-> 29999]

new_paidOrder == [state |-> "PAID", orderId |-> "ORD-102", amount |-> 15000]

new_doc == [state |-> "DRAFT", title |-> "API Rehberi", version |-> 1]

\* The subscription constructed with new ActiveSub() instead of new Trial().
new_sub_active == [state |-> "ACTIVE", planId |-> "pro-monthly", billingDay |-> 15]

new_sub == [state |-> "TRIAL", planId |-> "pro-monthly", billingDay |-> 15]

\* Arguments the callers pass to ContentDoc.reject ("" = no argument).
Reasons == {"", "Eksik ornekler."}

\* console: the lines written by the most recent call.
\* returned: the value the most recent call returned.
\* last: the most recent call (context, method, class of ctx.state before
\*       and after it, whether it raised); "new" after construction.
\*       repeatOf is the class the context was in before the call preceding
\*       this one, when that call was the same method on the same context and
\*       changed the state; "none" otherwise.
\* hist: the calls made so far, recorded by the scenario specifications.
Scripted ==
  /\ order = new_order
  /\ machine = new_machine
  /\ advOrder = new_advOrder
  /\ paidOrder = new_paidOrder
  /\ doc = new_doc
  /\ sub = new_sub
  /\ console = <<>>
  /\ returned = "undefined"
  /\ last = [ctx |-> "none", action |-> "new", before |-> "none",
             after |-> "none", threw |-> FALSE, repeatOf |-> "none"]
  /\ hist = <<>>

(* The services after construction.                                        *)
\* counters: RateLimiter.counters, the count per (recipient, type).
\* pending: the sendNotification calls suspended at an await.
\* sent: the sender.send() calls made per (recipient, type) since the
\*       counters were last reset.
\* notifications: the number of notifications NotificationRepository holds.
\* callSeq: the number of sendNotification calls started.
\* count, resolved: createAsyncCounter's count and the values its increment()
\*       promises resolved with, in order of resolution.
\* middlewares: MiddlewarePipeline.middlewares.
\* response: what the most recent MiddlewarePipeline.execute returned, with
\*       the middlewares that ran for it.
\* requests: RateLimiter.requests of the pipeline's rate limiter (the
\*       requests of the last minute).
\* cache: the keys Cache holds.
NotificationTypes == {"email", "sms", "push", "webhook"}

\* No request has been executed yet.
NoResponse ==
  [statusCode |-> 0, body |-> "none", ran |-> <<>>, stoppedBy |-> "none",
   pipeline |-> <<>>, authorization |-> "none"]

Recipients == {"ali@example.com"}

Services ==
  /\ counters = [k \in Recipients \X NotificationTypes |-> 0]
  /\ pending = {}
  /\ sent = [k \in Recipients \X NotificationTypes |-> 0]
  /\ notifications = 0
  /\ callSeq = 0
  /\ count = 0
  /\ resolved = <<>>
  /\ middlewares = <<>>
  /\ response = NoResponse
  /\ requests = 0
  /\ cache = {}

\* No wrapper has been created: the clock stands at 0 and no timer is set.
NoWrappers ==
  /\ now = 0
  /\ timers = {}
  /\ timerSeq = 0
  /\ debounced = "none"
  /\ throttled = "none"
  /\ events = <<>>

Init == Scripted /\ NoWrappers /\ Services

\* What a call leaves observable: its output, its return value, its record.
Effect(c, method, before, r) ==
  /\ console' = r.out
  /\ returned' = r.ret
  /\ last' = [ctx |-> c, action |-> method, before |-> before,
              after |-> r.state, threw |-> r.threw,
              repeatOf |-> IF /\ last.ctx = c
                              /\ last.action = method
                              /\ last.before # last.after
                           THEN last.before
                           ELSE "none"]
  /\ UNCHANGED <<loopVars, svcVars>>

-----------------------------------------------------------------------------
(* class Order: every method delegates to this.state *)

Order_call(method) ==
  LET r == OrderState(method, order) IN
  /\ order' = [order EXCEPT !.state = r.state]
  /\ Effect("order", method, order.state, r)
  /\ UNCHANGED <<machine, advOrder, paidOrder, doc, sub>>

Order_pay == Order_call("pay") /\ UNCHANGED hist

Order_ship == Order_call("ship") /\ UNCHANGED hist

Order_getStatus == Order_call("status") /\ UNCHANGED hist

(* class VendingMachine *)

VendingMachine_call(method) ==
  LET r == VendingState(method, machine) IN
  /\ machine' = [machine EXCEPT !.state = r.state]
  /\ Effect("machine", method, machine.state, r)
  /\ UNCHANGED <<order, advOrder, paidOrder, doc, sub>>

VendingMachine_insertCoin == VendingMachine_call("insertCoin") /\ UNCHANGED hist

VendingMachine_selectDrink == VendingMachine_call("selectDrink") /\ UNCHANGED hist

(* class AdvancedOrder, instances advOrder and paidOrder *)

\* AdvancedOrder_call with the state held once for all orders: a transition of one moves the other too.
AdvancedOrder_call_shared(c, method) ==
  LET ctx == IF c = "advOrder" THEN advOrder ELSE paidOrder
      r == AdvancedOrderState(method, ctx)
  IN
  /\ advOrder' = [advOrder EXCEPT !.state = r.state]
  /\ paidOrder' = [paidOrder EXCEPT !.state = r.state]
  /\ Effect(c, method, ctx.state, r)
  /\ UNCHANGED <<order, machine, doc, sub>>

AdvancedOrder_call(c, method) ==
  LET ctx == IF c = "advOrder" THEN advOrder ELSE paidOrder
      r == AdvancedOrderState(method, ctx)
  IN
  /\ IF c = "advOrder"
       THEN advOrder' = [advOrder EXCEPT !.state = r.state]
            /\ UNCHANGED paidOrder
       ELSE paidOrder' = [paidOrder EXCEPT !.state = r.state]
            /\ UNCHANGED advOrder
  /\ Effect(c, method, ctx.state, r)
  /\ UNCHANGED <<order, machine, doc, sub>>

AdvancedOrder_cancel ==
  \E c \in {"advOrder", "paidOrder"} :
    AdvancedOrder_call(c, "cancel") /\ UNCHANGED hist

AdvancedOrder_ship ==
  \E c \in {"advOrder", "paidOrder"} :
    AdvancedOrder_call(c, "ship") /\ UNCHANGED hist

AdvancedOrder_deliver ==
  \E c \in {"advOrder", "paidOrder"} :
    AdvancedOrder_call(c, "deliver") /\ UNCHANGED hist

AdvancedOrder_refund ==
  \E c \in {"advOrder", "paidOrder"} :
    AdvancedOrder_call(c, "refund") /\ UNCHANGED hist

AdvancedOrder_getStatus ==
  \E c \in {"advOrder", "paidOrder"} :
    AdvancedOrder_call(c, "status") /\ UNCHANGED hist

(* class ContentDoc *)

ContentDoc_call(method, reason) ==
  LET r == DocumentState(method, doc, reason) IN
  /\ r.version <= MaxVersion
  /\ doc' = [doc EXCEPT !.state = r.state, !.version = r.version]
  /\ Effect("doc", method, doc.state, r)
  /\ UNCHANGED <<order, machine, advOrder, paidOrder, sub>>

ContentDoc_submit == ContentDoc_call("submit", "") /\ UNCHANGED hist

ContentDoc_approve == ContentDoc_call("approve", "") /\ UNCHANGED hist

ContentDoc_reject ==
  \E reason \in Reasons : ContentDoc_call("reject", reason) /\ UNCHANGED hist

ContentDoc_publish == ContentDoc_call("publish", "") /\ UNCHANGED hist

ContentDoc_getStatus == ContentDoc_call("status", "") /\ UNCHANGED hist

(* class Subscription *)

Subscription_call(method) ==
  LET r == SubscriptionState(method, sub) IN
  /\ sub' = [sub EXCEPT !.state = r.state]
  /\ Effect("sub", method, sub.state, r)
  /\ UNCHANGED <<order, machine, advOrder, paidOrder, doc>>

Subscription_activate == Subscription_call("activate") /\ UNCHANGED hist

Subscription_charge == Subscription_call("charge") /\ UNCHANGED hist

Subscription_paymentFailed == Subscription_call("paymentFailed") /\ UNCHANGED hist

Subscription_suspend == Subscription_call("suspend") /\ UNCHANGED hist

Subscription_cancel == Subscription_call("cancel") /\ UNCHANGED hist

Subscription_getStatus == Subscription_call("status") /\ UNCHANGED hist

Next ==
  \/ Order_pay \/ Order_ship \/ Order_getStatus
  \/ VendingMachine_insertCoin \/ VendingMachine_selectDrink
  \/ AdvancedOrder_cancel \/ AdvancedOrder_ship \/ AdvancedOrder_deliver
  \/ AdvancedOrder_refund \/ AdvancedOrder_getStatus
  \/ ContentDoc_submit \/ ContentDoc_approve \/ ContentDoc_reject
  \/ ContentDoc_publish \/ ContentDoc_getStatus
  \/ Subscription_activate \/ Subscription_charge
  \/ Subscription_paymentFailed \/ Subscription_suspend
  \/ Subscription_cancel \/ Subscription_getStatus

Spec == Init /\ [][Next]_vars

-----------------------------------------------------------------------------
(* A caller driving the order alone, with every call recorded in hist:     *)
(* the method called, the class of order.state after it and what           *)
(* getStatus() then returns.                                                *)

Order_traced(method) ==
  /\ Len(hist) < MaxCalls
  /\ Order_call(method)
  /\ hist' = Append(hist, [action |-> method, tag |-> order'.state,
                           status |-> OrderState("status", order').ret])

Order_pay_traced == Order_traced("pay")

Order_ship_traced == Order_traced("ship")

NextOrder == Order_pay_traced \/ Order_ship_traced

SpecOrder == Init /\ [][NextOrder]_vars

-----------------------------------------------------------------------------
(* The vending machine on its own, with every call recorded. *)
VendingMachine_traced(method) ==
  /\ Len(hist) < MaxCalls
  /\ VendingMachine_call(method)
  /\ hist' = Append(hist, [action |-> method, before |-> machine.state,
                           tag |-> machine'.state, out |-> console'])

VendingMachine_insertCoin_traced == VendingMachine_traced("insertCoin")

VendingMachine_selectDrink_traced == VendingMachine_traced("selectDrink")

NextVending ==
  VendingMachine_insertCoin_traced \/ VendingMachine_selectDrink_traced

SpecVending == Init /\ [][NextVending]_vars

-----------------------------------------------------------------------------
(* A caller driving one document alone.  ContentDoc's constructor takes    *)
(* the version from its caller (default 1); hist starts with the           *)
(* construction and then records every call: the method, the class of      *)
(* doc.state after it, what getStatus() then returns and doc.version.      *)

InitDoc ==
  /\ order = new_order
  /\ machine = new_machine
  /\ advOrder = new_advOrder
  /\ paidOrder = new_paidOrder
  /\ doc \in {[new_doc EXCEPT !.version = v] : v \in 1..MaxVersion}
  /\ sub = new_sub
  /\ console = <<>>
  /\ returned = "undefined"
  /\ last = [ctx |-> "none", action |-> "new", before |-> "none",
             after |-> "none", threw |-> FALSE, repeatOf |-> "none"]
  /\ hist = << [action |-> "new", tag |-> doc.state,
                status |-> DocumentState("status", doc, "").ret,
                version |-> doc.version] >>
  /\ NoWrappers
  /\ Services

ContentDoc_traced(method, reason) ==
  /\ Len(hist) < MaxDocCalls + 1
  /\ ContentDoc_call(method, reason)
  /\ hist' = Append(hist, [action |-> method, tag |-> doc'.state,
                           status |-> DocumentState("status", doc', "").ret,
                           version |-> doc'.version])

ContentDoc_submit_traced == ContentDoc_traced("submit", "")

ContentDoc_approve_traced == ContentDoc_traced("approve", "")

ContentDoc_reject_traced == \E reason \in Reasons : ContentDoc_traced("reject", reason)

ContentDoc_publish_traced == ContentDoc_traced("publish", "")

NextDoc ==
  \/ ContentDoc_submit_traced \/ ContentDoc_approve_traced
  \/ ContentDoc_reject_traced \/ ContentDoc_publish_traced

SpecDoc == InitDoc /\ [][NextDoc]_vars

-----------------------------------------------------------------------------
(* The contexts as in Init, except that advOrder is constructed with a     *)
(* state object of any class: AdvancedOrder's constructor takes the        *)
(* initial state from its caller, and no action assigns new PaidAdv() or   *)
(* new ProcessingAdv().  In every other lifecycle the actions reach every  *)
(* class from the constructed one.                                         *)

InitAny ==
  /\ order = new_order
  /\ machine = new_machine
  /\ advOrder \in {[new_advOrder EXCEPT !.state = v] : v \in AdvancedOrderStateName}
  /\ paidOrder = new_paidOrder
  /\ doc = new_doc
  /\ sub = new_sub
  /\ console = <<>>
  /\ returned = "undefined"
  /\ last = [ctx |-> "none", action |-> "new", before |-> "none",
             after |-> "none", threw |-> FALSE, repeatOf |-> "none"]
  /\ hist = <<>>
  /\ NoWrappers
  /\ Services

SpecAny == InitAny /\ [][Next]_vars

-----------------------------------------------------------------------------
(* createDebounce and createThrottle on the event loop.  Time is counted   *)
(* in ticks.  timers holds the callbacks scheduled with setTimeout and not *)
(* yet run or cleared; the loop is idle between calls, so a callback runs  *)
(* as soon as its timer is due, before the clock advances and before any   *)
(* later call is delivered.  events records, in order, every call of the   *)
(* wrapper and every invocation of the wrapped func.                       *)

\* Arguments the callers pass to the wrapper (debouncedSearch('a'), ...).
Args == {"a", "ab", "abc"}

Due == {t \in timers : t.due <= now}

CallsMade == Cardinality({i \in 1..Len(events) : events[i].kind = "call"})

\* setTimeout(cb, ms): the timer it creates.
setTimeout(cb, ms) == [id |-> timerSeq + 1, due |-> now + ms, cb |-> cb]

\* clearTimeout(id): the timers left; an unknown or spent id clears nothing.
clearTimeout(id) == {t \in timers : t.id # id}

\* let timeoutId; (0 stands for undefined)
createDebounce(delay) == [delay |-> delay, timeoutId |-> 0]

\* let inThrottle; (undefined is falsy)
createThrottle(limit) == [limit |-> limit, inThrottle |-> FALSE]

InitDebounce ==
  /\ Scripted
  /\ now = 0
  /\ timers = {}
  /\ timerSeq = 0
  /\ debounced \in {createDebounce(d) : d \in 1..MaxDelay}
  /\ throttled = "none"
  /\ events = <<>>
  /\ Services

InitThrottle ==
  /\ Scripted
  /\ now = 0
  /\ timers = {}
  /\ timerSeq = 0
  /\ debounced = "none"
  /\ throttled \in {createThrottle(l) : l \in 1..MaxDelay}
  /\ events = <<>>
  /\ Services

\* The function createDebounce returns, called with args.
\* The debounced function without clearTimeout(timeoutId).
Debounced_call_noClear(args) ==
  /\ Due = {}
  /\ CallsMade < MaxWrappedCalls
  /\ timers' = timers
                 \cup {setTimeout([fn |-> "func", args |-> args], debounced.delay)}
  /\ timerSeq' = timerSeq + 1
  /\ debounced' = [debounced EXCEPT !.timeoutId = timerSeq + 1]
  /\ events' = Append(events, [kind |-> "call", at |-> now, args |-> args])
  /\ UNCHANGED <<now, throttled, ctxVars, svcVars>>

Debounced_call(args) ==
  /\ Due = {}
  /\ CallsMade < MaxWrappedCalls
  /\ timers' = clearTimeout(debounced.timeoutId)
                 \cup {setTimeout([fn |-> "func", args |-> args], debounced.delay)}
  /\ timerSeq' = timerSeq + 1
  /\ debounced' = [debounced EXCEPT !.timeoutId = timerSeq + 1]
  /\ events' = Append(events, [kind |-> "call", at |-> now, args |-> args])
  /\ UNCHANGED <<now, throttled, ctxVars, svcVars>>

\* The function createThrottle returns, called with args.
\* The throttled function without inThrottle = true.
Throttled_call_neverEngages(args) ==
  /\ Due = {}
  /\ CallsMade < MaxWrappedCalls
  /\ IF ~throttled.inThrottle
       THEN /\ events' = events \o
                  << [kind |-> "call", at |-> now, args |-> args],
                     [kind |-> "invoke", at |-> now, args |-> args] >>
            /\ throttled' = throttled
            /\ timers' = timers
                 \cup {setTimeout([fn |-> "release", args |-> ""], throttled.limit)}
            /\ timerSeq' = timerSeq + 1
       ELSE /\ events' = Append(events, [kind |-> "call", at |-> now, args |-> args])
            /\ UNCHANGED <<throttled, timers, timerSeq>>
  /\ UNCHANGED <<now, debounced, ctxVars, svcVars>>

Throttled_call(args) ==
  /\ Due = {}
  /\ CallsMade < MaxWrappedCalls
  /\ IF ~throttled.inThrottle
       THEN /\ events' = events \o
                  << [kind |-> "call", at |-> now, args |-> args],
                     [kind |-> "invoke", at |-> now, args |-> args] >>
            /\ throttled' = [throttled EXCEPT !.inThrottle = TRUE]
            /\ timers' = timers
                 \cup {setTimeout([fn |-> "release", args |-> ""], throttled.limit)}
            /\ timerSeq' = timerSeq + 1
       ELSE /\ events' = Append(events, [kind |-> "call", at |-> now, args |-> args])
            /\ UNCHANGED <<throttled, timers, timerSeq>>
  /\ UNCHANGED <<now, debounced, ctxVars, svcVars>>

\* The event loop runs the callback of a due timer:
\* () => func.apply(this, args)  or  () => (inThrottle = false).
Timer_run ==
  \E t \in Due :
    /\ timers' = timers \ {t}
    /\ IF t.cb.fn = "func"
         THEN /\ events' = Append(events, [kind |-> "invoke", at |-> now,
                                          args |-> t.cb.args])
              /\ UNCHANGED throttled
         ELSE /\ throttled' = [throttled EXCEPT !.inThrottle = FALSE]
              /\ UNCHANGED events
    /\ UNCHANGED <<now, timerSeq, debounced, ctxVars, svcVars>>

\* A tick passes with no timer due.
Tick ==
  /\ now < MaxTime
  /\ Due = {}
  /\ now' = now + 1
  /\ UNCHANGED <<timers, timerSeq, debounced, throttled, events,
               ctxVars, svcVars>>

Debounced == \E args \in Args : Debounced_call(args)

Throttled == \E args \in Args : Throttled_call(args)

NextDebounce == Debounced \/ Timer_run \/ Tick

SpecDebounce == InitDebounce /\ [][NextDebounce]_vars

NextThrottle == Throttled \/ Timer_run \/ Tick

SpecThrottle == InitThrottle /\ [][NextThrottle]_vars

-----------------------------------------------------------------------------
(* throttle(func, limit, {leading, trailing}) of throttling.md.  The       *)
(* clock is monotonic; a call may arrive, and a tick may pass, while the   *)
(* trailing timer is due but has not run yet.                              *)

\* Date.now() when the clock of the model stands at 0: any value greater
\* than every limit, so that a first call sees previous = 0 as long ago.
Epoch == 1000

Date_now == Epoch + now

\* The closure throttle() returns; timeout = 0 stands for null.
throttle(limit, leading, trailing) ==
  [limit |-> limit, leading |-> leading, trailing |-> trailing,
   timeout |-> 0, previous |-> 0]

InitThrottleOptions ==
  /\ Scripted
  /\ now = 0
  /\ timers = {}
  /\ timerSeq = 0
  /\ debounced = "none"
  /\ throttled \in {throttle(l, ld, tr) :
                      l \in 1..MaxDelay, ld \in BOOLEAN, tr \in BOOLEAN}
  /\ events = <<>>
  /\ Services

\* The returned function with the stale trailing timer left in place.
throttle_call_keepsTimer(args) ==
  LET previous == IF throttled.previous = 0 /\ ~throttled.leading
                    THEN Date_now ELSE throttled.previous
      remaining == throttled.limit - (Date_now - previous)
  IN
  /\ CallsMade < MaxWrappedCalls
  /\ IF remaining <= 0 \/ remaining > throttled.limit
       THEN /\ timers' = timers
            /\ throttled' = [throttled EXCEPT !.timeout = 0,
                                              !.previous = Date_now]
            /\ events' = events \o
                  << [kind |-> "call", at |-> now, args |-> args],
                     [kind |-> "invoke", at |-> now, args |-> args] >>
            /\ UNCHANGED timerSeq
       ELSE IF throttled.timeout = 0 /\ throttled.trailing
       THEN /\ timers' = timers
                 \cup {setTimeout([fn |-> "trailing", args |-> args], remaining)}
            /\ timerSeq' = timerSeq + 1
            /\ throttled' = [throttled EXCEPT !.timeout = timerSeq + 1,
                                              !.previous = previous]
            /\ events' = Append(events, [kind |-> "call", at |-> now, args |-> args])
       ELSE /\ throttled' = [throttled EXCEPT !.previous = previous]
            /\ events' = Append(events, [kind |-> "call", at |-> now, args |-> args])
            /\ UNCHANGED <<timers, timerSeq>>
  /\ UNCHANGED <<now, debounced, ctxVars, svcVars>>

\* The returned function.
throttle_call(args) ==
  LET previous == IF throttled.previous = 0 /\ ~throttled.leading
                    THEN Date_now ELSE throttled.previous
      remaining == throttled.limit - (Date_now - previous)
  IN
  /\ CallsMade < MaxWrappedCalls
  /\ IF remaining <= 0 \/ remaining > throttled.limit
       THEN /\ timers' = IF throttled.timeout # 0
                           THEN clearTimeout(throttled.timeout) ELSE timers
            /\ throttled' = [throttled EXCEPT !.timeout = 0,
                                              !.previous = Date_now]
            /\ events' = events \o
                  << [kind |-> "call", at |-> now, args |-> args],
                     [kind |-> "invoke", at |-> now, args |-> args] >>
            /\ UNCHANGED timerSeq
       ELSE IF throttled.timeout = 0 /\ throttled.trailing
       THEN /\ timers' = timers
                 \cup {setTimeout([fn |-> "trailing", args |-> args], remaining)}
            /\ timerSeq' = timerSeq + 1
            /\ throttled' = [throttled EXCEPT !.timeout = timerSeq + 1,
                                              !.previous = previous]
            /\ events' = Append(events, [kind |-> "call", at |-> now, args |-> args])
       ELSE /\ throttled' = [throttled EXCEPT !.previous = previous]
            /\ events' = Append(events, [kind |-> "call", at |-> now, args |-> args])
            /\ UNCHANGED <<timers, timerSeq>>
  /\ UNCHANGED <<now, debounced, ctxVars, svcVars>>

\* The trailing timer's callback.
Trailing_run ==
  \E t \in Due :
    /\ timers' = timers \ {t}
    /\ throttled' = [throttled EXCEPT
                       !.previous = IF ~throttled.leading THEN 0 ELSE Date_now,
                       !.timeout = 0]
    /\ events' = Append(events, [kind |-> "invoke", at |-> now,
                                 args |-> t.cb.args])
    /\ UNCHANGED <<now, timerSeq, debounced, ctxVars, svcVars>>

\* A tick passes while a due timer has not run yet (the event loop is busy).
Tick_busy ==
  /\ now < MaxTime
  /\ Due # {}
  /\ now' = now + 1
  /\ UNCHANGED <<timers, timerSeq, debounced, throttled, events,
               ctxVars, svcVars>>

\* The arguments of the calls: two values tell a call from the next.
ThrottleArgs == {"a", "ab"}

ThrottledOptions == \E args \in ThrottleArgs : throttle_call(args)

NextThrottleOptions == ThrottledOptions \/ Trailing_run \/ Tick \/ Tick_busy

SpecThrottleOptions == InitThrottleOptions /\ [][NextThrottleOptions]_vars

-----------------------------------------------------------------------------
(* createAsyncCounter.  increment() suspends at                            *)
(* `await new Promise((resolve) => setTimeout(resolve, 100))`; once the    *)
(* timer has run it is resumed and runs `count++; return count` to the     *)
(* end, JavaScript running one callback at a time.                         *)

\* The 100 ms of the await, in ticks of 50 ms.
AwaitTicks == 2

\* increment() up to its await.
AsyncCounter_increment ==
  /\ CallsMade < MaxWrappedCalls
  /\ timers' = timers \cup {setTimeout([fn |-> "resolve", args |-> ""], AwaitTicks)}
  /\ timerSeq' = timerSeq + 1
  /\ events' = Append(events, [kind |-> "call", at |-> now, args |-> ""])
  /\ UNCHANGED <<now, debounced, throttled, count, resolved>>
  /\ UNCHANGED <<ctxVars, notifyVars, pipelineVars>>

\* increment() from its await on, written `return count++`.
AsyncCounter_resume_returnsOld ==
  \E t \in Due :
    /\ timers' = timers \ {t}
    /\ count' = count + 1
    /\ resolved' = Append(resolved, count)
    /\ events' = Append(events, [kind |-> "resolved", at |-> now,
                                 args |-> count])
    /\ UNCHANGED <<now, timerSeq, debounced, throttled>>
    /\ UNCHANGED <<ctxVars, notifyVars, pipelineVars>>

\* increment() from its await on: count++; return count.
AsyncCounter_resume ==
  \E t \in Due :
    /\ timers' = timers \ {t}
    /\ count' = count + 1
    /\ resolved' = Append(resolved, count + 1)
    /\ events' = Append(events, [kind |-> "resolved", at |-> now,
                                 args |-> count + 1])
    /\ UNCHANGED <<now, timerSeq, debounced, throttled>>
    /\ UNCHANGED <<ctxVars, notifyVars, pipelineVars>>

\* getValue(), at any point of the run.
AsyncCounter_getValue ==
  /\ Cardinality({i \in 1..Len(events) : events[i].kind = "getValue"})
       < MaxReadings
  /\ events' = Append(events, [kind |-> "getValue", at |-> now, args |-> count])
  /\ UNCHANGED <<now, timers, timerSeq, debounced, throttled, count, resolved>>
  /\ UNCHANGED <<ctxVars, notifyVars, pipelineVars>>

NextCounter ==
  \/ AsyncCounter_increment \/ AsyncCounter_resume \/ AsyncCounter_getValue
  \/ Tick

SpecCounter == Init /\ [][NextCounter]_vars

-----------------------------------------------------------------------------
(* MiddlewarePipeline and its five middlewares.  Each middleware object is *)
(* registered at most once at a time, and a request runs from the call of  *)
(* execute to its return with no other call on the pipeline in between.    *)

MiddlewareNames ==
  {"AuthenticationMiddleware", "LoggingMiddleware", "RateLimitingMiddleware",
   "CachingMiddleware", "CompressionMiddleware"}

getPriority(name) ==
  CASE name = "AuthenticationMiddleware" -> 1
    [] name = "RateLimitingMiddleware"   -> 2
    [] name = "CachingMiddleware"        -> 5
    [] name = "CompressionMiddleware"    -> 8
    [] name = "LoggingMiddleware"        -> 10

\* new RateLimitingMiddleware(new RateLimiter(), 10)
requestsPerMinute == 10

\* Array.prototype.sort with (a, b) => a.getPriority() - b.getPriority():
\* a stable sort, computed by insertion.
RECURSIVE sortByPriority(_)
sortByPriority(ms) ==
  IF ms = <<>> THEN <<>>
  ELSE LET init == sortByPriority(SubSeq(ms, 1, Len(ms) - 1))
           m == ms[Len(ms)]
           k == Cardinality({i \in 1..Len(init) :
                               getPriority(init[i]) <= getPriority(m)})
       IN SubSeq(init, 1, k) \o <<m>> \o SubSeq(init, k + 1, Len(init))

\* The requests executed: with no authorization header, a valid and an
\* invalid token; with and without accept-encoding: gzip.
Requests ==
  [method : {"GET"}, url : {"/api/users"},
   authorization : {"", "valid-token", "expired-token"},
   gzip : BOOLEAN]

generateCacheKey(request) == <<request.method, request.url>>

\* context.next() with currentIndex = i - 1: runs ms[i], which runs the
\* rest through its own call of context.next().  st carries the response,
\* the services' state and the record of what ran.
RECURSIVE next(_, _, _, _)
next(ms, i, request, st) ==
  IF i > Len(ms) THEN st
  ELSE
    LET m == ms[i]
        entered == [st EXCEPT !.ran = Append(@, m)]
    IN
    CASE m = "AuthenticationMiddleware" ->
           IF request.authorization = ""
             THEN [entered EXCEPT !.statusCode = 401,
                                  !.body = "Authentication required",
                                  !.stoppedBy = m]
           ELSE IF request.authorization # "valid-token"
             THEN [entered EXCEPT !.statusCode = 401,
                                  !.body = "Invalid token",
                                  !.stoppedBy = m]
           ELSE next(ms, i + 1, request, [entered EXCEPT !.user = "John Doe"])
      [] m = "RateLimitingMiddleware" ->
           IF entered.requests >= requestsPerMinute
             THEN [entered EXCEPT !.statusCode = 429,
                                  !.body = "Rate limit exceeded",
                                  !.stoppedBy = m]
           ELSE next(ms, i + 1, request,
                     [entered EXCEPT !.requests = @ + 1])
      [] m = "CachingMiddleware" ->
           IF generateCacheKey(request) \in entered.cache
             THEN [entered EXCEPT !.stoppedBy = m]
           ELSE LET after == next(ms, i + 1, request, entered) IN
                IF after.statusCode >= 200 /\ after.statusCode < 300
                  THEN [after EXCEPT !.cache = @ \cup {generateCacheKey(request)}]
                  ELSE after
      [] m = "CompressionMiddleware" ->
           LET after == next(ms, i + 1, request, entered) IN
           IF request.gzip /\ after.contentType # ""
             THEN [after EXCEPT !.body = "compressed_gzip",
                                !.contentEncoding = "gzip"]
             ELSE after
      [] m = "LoggingMiddleware" ->
           LET after == next(ms, i + 1, request,
                             [entered EXCEPT !.log = Append(@,
                                <<"[INFO] Request started: ", request.method,
                                  " ", request.url>>)])
           IN [after EXCEPT !.log = Append(@,
                 <<"[INFO] Request completed: ", ToString(after.statusCode)>>)]

\* addMiddleware without the sort.
MiddlewarePipeline_addMiddleware_unsorted(m) ==
  /\ \A i \in 1..Len(middlewares) : middlewares[i] # m
  /\ middlewares' = Append(middlewares, m)
  /\ UNCHANGED <<response, requests, cache>>
  /\ UNCHANGED <<ctxVars, loopVars, notifyVars, counterVars>>

MiddlewarePipeline_addMiddleware(m) ==
  /\ \A i \in 1..Len(middlewares) : middlewares[i] # m
  /\ middlewares' = sortByPriority(Append(middlewares, m))
  /\ UNCHANGED <<response, requests, cache>>
  /\ UNCHANGED <<ctxVars, loopVars, notifyVars, counterVars>>

MiddlewarePipeline_removeMiddleware(name) ==
  /\ \E i \in 1..Len(middlewares) : middlewares[i] = name
  /\ middlewares' = SelectSeq(middlewares, LAMBDA m : m # name)
  /\ UNCHANGED <<response, requests, cache>>
  /\ UNCHANGED <<ctxVars, loopVars, notifyVars, counterVars>>

MiddlewarePipeline_execute(request) ==
  LET st == next(middlewares, 1, request,
                 [statusCode |-> 200, body |-> "null", contentType |-> "",
                  contentEncoding |-> "", user |-> "none",
                  ran |-> <<>>, stoppedBy |-> "none", log |-> <<>>,
                  requests |-> requests, cache |-> cache])
  IN
  /\ response' = [statusCode |-> st.statusCode, body |-> st.body,
                  ran |-> st.ran, stoppedBy |-> st.stoppedBy,
                  pipeline |-> middlewares,
                  authorization |-> request.authorization]
  /\ requests' = st.requests
  /\ cache' = st.cache
  /\ console' = st.log
  /\ UNCHANGED middlewares
  /\ UNCHANGED <<order, machine, advOrder, paidOrder, doc, sub,
               returned, last, hist>>
  /\ UNCHANGED <<loopVars, notifyVars, counterVars>>

\* Cache.set's timer: the key is deleted when its ttl has passed.
Cache_expire ==
  /\ cache # {}
  /\ \E key \in cache : cache' = cache \ {key}
  /\ UNCHANGED <<middlewares, response, requests>>
  /\ UNCHANGED <<ctxVars, loopVars, notifyVars, counterVars>>

\* RateLimiter.isAllowed drops the requests older than a minute.
RateLimiter_minutePassed ==
  /\ requests > 0
  /\ requests' = 0
  /\ UNCHANGED <<middlewares, response, cache>>
  /\ UNCHANGED <<ctxVars, loopVars, notifyVars, counterVars>>

AddMiddleware == \E m \in MiddlewareNames : MiddlewarePipeline_addMiddleware(m)

RemoveMiddleware ==
  \E name \in MiddlewareNames : MiddlewarePipeline_removeMiddleware(name)

Execute == \E request \in Requests : MiddlewarePipeline_execute(request)

NextPipeline ==
  \/ AddMiddleware \/ RemoveMiddleware \/ Execute
  \/ Cache_expire \/ RateLimiter_minutePassed

SpecPipeline == Init /\ [][NextPipeline]_vars

-----------------------------------------------------------------------------
(* NotificationService.sendNotification.  The function is async: it runs   *)
(* up to its first await (sender.send), is resumed to increment the        *)
(* counter and call repository.save, and is resumed again to return; other *)
(* calls run in between.                                                   *)

\* RateLimiter.limits, with `this.limits.get(type) || 0`.
limits(type) ==
  CASE type = "email" -> 100
    [] type = "sms"   -> 10
    [] type = "push"  -> 50
    [] OTHER          -> 0

\* RateLimiter.checkLimit
checkLimit(recipient, type) == counters[<<recipient, type>>] < limits(type)

\* EmailSender / SMSSender / PushNotificationSender .canSend; "none" when
\* this.senders.find(...) finds no sender.
senderFor(n) ==
  CASE n.type = "email" /\ n.subject # "" -> "EmailSender"
    [] n.type = "sms"                     -> "SMSSender"
    [] n.type = "push"                    -> "PushNotificationSender"
    [] OTHER                              -> "none"

\* The result of <sender>.send
sendResult(sender) ==
  CASE sender = "EmailSender" -> [success |-> TRUE, messageId |-> "email_123"]
    [] sender = "SMSSender"   -> [success |-> TRUE, messageId |-> "sms_456"]
    [] OTHER                  -> [success |-> TRUE, messageId |-> "push_789"]

\* The notifications callers pass in: an SMS, and an e-mail with and
\* without a subject.
Notifications ==
  {[recipient |-> r, type |-> "sms", subject |-> ""] : r \in Recipients}
    \cup [recipient : Recipients, type : {"email"},
          subject : {"", "Hosgeldiniz"}]

\* The call up to `await sender.send(notification)`, or to its return from
\* the catch block.
NotificationService_sendNotification(n) ==
  /\ callSeq < MaxNotifications
  /\ Cardinality(pending) < MaxInFlight
  /\ callSeq' = callSeq + 1
  /\ IF ~checkLimit(n.recipient, n.type)
       THEN /\ returned' = [success |-> FALSE, error |-> "Rate limit exceeded"]
            /\ console' = << <<"Failed to send notification:",
                               "Rate limit exceeded">> >>
            /\ UNCHANGED <<pending, sent>>
       ELSE IF senderFor(n) = "none"
       THEN /\ returned' = [success |-> FALSE,
                            error |-> "No sender available for notification type"]
            /\ console' = << <<"Failed to send notification:",
                               "No sender available for notification type">> >>
            /\ UNCHANGED <<pending, sent>>
       ELSE /\ sent' = [sent EXCEPT ![<<n.recipient, n.type>>] = @ + 1]
            /\ console' = << <<"Sending to ", n.recipient>> >>
            /\ pending' = pending \cup
                 {[id |-> CHOOSE i \in 1..MaxInFlight :
                            \A q \in pending : q.id # i,
                   notification |-> n,
                   result |-> sendResult(senderFor(n)), pc |-> "send"]}
            /\ UNCHANGED returned
  /\ UNCHANGED <<counters, notifications>>
  /\ UNCHANGED <<order, machine, advOrder, paidOrder, doc, sub, last, hist>>
  /\ UNCHANGED <<loopVars, counterVars, pipelineVars>>

\* From the resolution of sender.send to `await this.repository.save(...)`.
NotificationService_afterSend(p) ==
  /\ p.pc = "send"
  /\ counters' = [counters EXCEPT
                    ![<<p.notification.recipient, p.notification.type>>] = @ + 1]
  /\ notifications' = notifications + 1
  /\ console' = << <<"Notification saved">> >>
  /\ pending' = (pending \ {p}) \cup {[p EXCEPT !.pc = "save"]}
  /\ UNCHANGED <<sent, callSeq, returned>>
  /\ UNCHANGED <<order, machine, advOrder, paidOrder, doc, sub, last, hist>>
  /\ UNCHANGED <<loopVars, counterVars, pipelineVars>>

\* From the resolution of repository.save to `return result`.
NotificationService_afterSave(p) ==
  /\ p.pc = "save"
  /\ returned' = p.result
  /\ pending' = pending \ {p}
  /\ UNCHANGED <<counters, sent, notifications, callSeq, console>>
  /\ UNCHANGED <<order, machine, advOrder, paidOrder, doc, sub, last, hist>>
  /\ UNCHANGED <<loopVars, counterVars, pipelineVars>>

RateLimiter_resetCounters ==
  /\ counters # [k \in Recipients \X NotificationTypes |-> 0]
  /\ counters' = [k \in Recipients \X NotificationTypes |-> 0]
  /\ sent' = [k \in Recipients \X NotificationTypes |-> 0]
  /\ UNCHANGED <<pending, notifications, callSeq>>
  /\ UNCHANGED <<ctxVars, loopVars, counterVars, pipelineVars>>

SendNotification == \E n \in Notifications : NotificationService_sendNotification(n)

AfterSend == \E p \in pending : NotificationService_afterSend(p)

AfterSave == \E p \in pending : NotificationService_afterSave(p)

NextNotify ==
  SendNotification \/ AfterSend \/ AfterSave \/ RateLimiter_resetCounters

SpecNotify == Init /\ [][NextNotify]_vars

-----------------------------------------------------------------------------
(* Transition graphs of the lifecycles: an edge v -> w for every action    *)
(* method whose body, run on a context in class v, leaves it in class w.   *)

OrderEdges ==
  {<<v, OrderState(a, [new_order EXCEPT !.state = v]).state>> :
     v \in OrderVariants, a \in OrderActions}

VendingEdges ==
  {<<v, VendingState(a, [new_machine EXCEPT !.state = v]).state>> :
     v \in VendingVariants, a \in VendingActions}

AdvancedOrderEdges ==
  {<<v, AdvancedOrderState(a, [new_advOrder EXCEPT !.state = v]).state>> :
     v \in AdvancedOrderStateName, a \in AdvancedOrderActions}

DocumentEdges ==
  {<<v, DocumentState(a, [new_doc EXCEPT !.state = v], r).state>> :
     v \in DocumentStateName, a \in DocumentActions, r \in Reasons}

SubscriptionEdges ==
  {<<v, SubscriptionState(a, [new_sub EXCEPT !.state = v]).state>> :
     v \in SubscriptionStateName, a \in SubscriptionActions}

\* The classes reachable from the set S along the edges E.
RECURSIVE Reachable(_, _)
Reachable(S, E) ==
  LET T == S \cup {e[2] : e \in {f \in E : f[1] \in S}}
  IN IF T = S THEN S ELSE Reachable(T, E)

\* The class of the state field of the context named c.
StateOf(c) ==
  CASE c = "order"     -> order.state
    [] c = "machine"   -> machine.state
    [] c = "advOrder"  -> advOrder.state
    [] c = "paidOrder" -> paidOrder.state
    [] c = "doc"       -> doc.state
    [] c = "sub"       -> sub.state

\* The most recent step was a call of an action method (not construction,
\* not the status query).
ActionCalled == last.action \notin {"new", "status"}

-----------------------------------------------------------------------------
(* C1: in the basic order lifecycle a call changes the state exactly when  *)
(* it is pay() on Pending (to Paid) or ship() on Paid (to Shipped); every  *)
(* other (class, action) pair leaves the state as it was.                  *)
C1_OrderTransitions ==
  (last.ctx = "order" /\ ActionCalled) =>
    order.state =
      CASE last.before = "Pending" /\ last.action = "pay"  -> "Paid"
        [] last.before = "Paid"    /\ last.action = "ship" -> "Shipped"
        [] OTHER -> last.before

C1_Witness ==
  /\ last.ctx = "order" /\ last.action = "pay" /\ last.before = "Shipped"
  /\ order.state = "Shipped"

(* C2: from a context that is in its lifecycle's start variant (Pending,   *)
(* PENDING, DRAFT, TRIAL) every variant of the lifecycle is reachable by   *)
(* some finite sequence of actions.                                        *)
C2_EveryVariantReachable ==
  /\ order.state = "Pending" =>
       OrderVariants \subseteq Reachable({order.state}, OrderEdges)
  /\ advOrder.state = "PENDING" =>
       AdvancedOrderStateName
         \subseteq Reachable({advOrder.state}, AdvancedOrderEdges)
  /\ doc.state = "DRAFT" =>
       DocumentStateName \subseteq Reachable({doc.state}, DocumentEdges)
  /\ sub.state = "TRIAL" =>
       SubscriptionStateName \subseteq Reachable({sub.state}, SubscriptionEdges)

(* C3 as stated: right after construction every context is in its          *)
(* lifecycle's start variant (Pending, NoCoin, PENDING, DRAFT, TRIAL).     *)
C3_AllCreatedInStart ==
  last.action = "new" =>
    /\ order.state = "Pending"
    /\ machine.state = "NoCoin"
    /\ advOrder.state = "PENDING"
    /\ paidOrder.state = "PENDING"
    /\ doc.state = "DRAFT"
    /\ sub.state = "TRIAL"

(* C3 amended: right after construction every context is in its start      *)
(* variant, except paidOrder, which is constructed in PAID.                *)
C3_CreatedInStartExceptPaidOrder ==
  last.action = "new" =>
    /\ order.state = "Pending"
    /\ machine.state = "NoCoin"
    /\ advOrder.state = "PENDING"
    /\ paidOrder.state = "PAID"
    /\ doc.state = "DRAFT"
    /\ sub.state = "TRIAL"

C3_Witness ==
  last.action = "new" /\ paidOrder.state = "PAID" /\ advOrder.state = "PENDING"

(* C4 as stated: when a call has just moved a context into a new variant,  *)
(* the same call made again immediately leaves the state unchanged and     *)
(* raises nothing.                                                         *)
C4_RepeatIsNoOp ==
  last.repeatOf # "none" =>
    StateOf(last.ctx) = last.before /\ ~last.threw

(* C4 amended: the same call made again immediately raises nothing and     *)
(* leaves the state unchanged, except submit() on a document (REJECTED ->  *)
(* DRAFT, then DRAFT -> IN_REVIEW) and paymentFailed() on a subscription   *)
(* (ACTIVE -> PAST_DUE, then PAST_DUE -> SUSPENDED).                       *)
C4_RepeatIsNoOpExceptTwo ==
  last.repeatOf # "none" =>
    /\ ~last.threw
    /\ StateOf(last.ctx) =
         CASE last.ctx = "doc" /\ last.action = "submit"
                /\ last.repeatOf = "REJECTED" -> "IN_REVIEW"
           [] last.ctx = "sub" /\ last.action = "paymentFailed"
                /\ last.repeatOf = "ACTIVE" -> "SUSPENDED"
           [] OTHER -> last.before

C4_Witness ==
  /\ last.ctx = "order" /\ last.action = "pay"
  /\ last.repeatOf = "Pending" /\ last.before = "Paid"
  /\ order.state = "Paid"

(* C5: when a call moved a context from s to a different variant, the same *)
(* call made again immediately never puts the context back in s.           *)
C5_RepeatNeverReverts ==
  last.repeatOf # "none" => StateOf(last.ctx) # last.repeatOf

C5_Witness ==
  /\ last.ctx = "sub" /\ last.action = "charge"
  /\ last.repeatOf = "PAST_DUE" /\ last.before = "ACTIVE"
  /\ sub.state = "ACTIVE"

(* C6: every call that changes the context's state writes a message.       *)
C6_TransitionsAnnounced ==
  (ActionCalled /\ last.before # StateOf(last.ctx)) => Len(console) > 0

(* C7: every action call that leaves the state unchanged writes a message. *)
C7_NoSilentRejection ==
  (ActionCalled /\ last.before = StateOf(last.ctx)) => Len(console) > 0

(* C8 as stated: no action invoked on a DELIVERED order changes its state. *)
C8_DeliveredTerminal ==
  (last.ctx \in {"advOrder", "paidOrder"} /\ ActionCalled
     /\ last.before = "DELIVERED") =>
    StateOf(last.ctx) = "DELIVERED"

(* C8 amended: on a DELIVERED order cancel, ship and deliver leave the     *)
(* state unchanged and refund moves it to REFUNDED.                        *)
C8_DeliveredOnlyRefunds ==
  (last.ctx \in {"advOrder", "paidOrder"} /\ ActionCalled
     /\ last.before = "DELIVERED") =>
    StateOf(last.ctx) =
      IF last.action = "refund" THEN "REFUNDED" ELSE "DELIVERED"

C8_Witness ==
  /\ last.ctx = "paidOrder" /\ last.action = "refund"
  /\ last.before = "DELIVERED" /\ paidOrder.state = "REFUNDED"

(* C9: once a context is in Shipped, CANCELLED or REFUNDED (advanced       *)
(* order), PUBLISHED or CANCELLED (subscription), no step changes its      *)
(* state again.                                                            *)
C9_TerminalsAbsorb ==
  [][ /\ order.state = "Shipped" => order'.state = "Shipped"
      /\ advOrder.state \in {"CANCELLED", "REFUNDED"}
           => advOrder'.state = advOrder.state
      /\ paidOrder.state \in {"CANCELLED", "REFUNDED"}
           => paidOrder'.state = paidOrder.state
      /\ doc.state = "PUBLISHED" => doc'.state = "PUBLISHED"
      /\ sub.state = "CANCELLED" => sub'.state = "CANCELLED" ]_vars

C9_Witness ==
  /\ order.state = "Shipped" /\ advOrder.state = "CANCELLED"
  /\ paidOrder.state = "REFUNDED" /\ doc.state = "PUBLISHED"
  /\ sub.state = "CANCELLED"
  /\ last.ctx = "sub" /\ last.action = "activate" /\ last.before = "CANCELLED"

(* C10: on a new order the calls ship, pay, pay, ship, pay leave the order *)
(* in Pending, Paid, Paid, Shipped, Shipped, call by call.                 *)
OrderScenario == <<"ship", "pay", "pay", "ship", "pay">>

C10_OrderScenario ==
  \A k \in 1..Len(OrderScenario) :
    (k <= Len(hist) /\ \A i \in 1..k : hist[i].action = OrderScenario[i]) =>
      /\ hist[k].tag = <<"Pending", "Paid", "Paid", "Shipped", "Shipped">>[k]
      /\ hist[k].status =
           <<"Beklemede", "Odendi", "Odendi", "Gonderildi", "Gonderildi">>[k]

C10_Witness ==
  /\ Len(hist) = Len(OrderScenario)
  /\ \A i \in 1..Len(OrderScenario) : hist[i].action = OrderScenario[i]
  /\ order.state = "Shipped"


(* C11: on a new document of version v the calls approve, submit, reject,  *)
(* submit, submit, approve, publish leave it in DRAFT, IN_REVIEW,          *)
(* REJECTED, DRAFT, IN_REVIEW, APPROVED, PUBLISHED, call by call, and the  *)
(* version is v up to the third call and v + 1 from the fourth call on.    *)
DocScenario ==
  <<"approve", "submit", "reject", "submit", "submit", "approve", "publish">>

C11_DocScenario ==
  \A k \in 1..Len(DocScenario) :
    (k + 1 <= Len(hist)
       /\ \A i \in 1..k : hist[i + 1].action = DocScenario[i]) =>
      /\ hist[k + 1].tag =
           <<"DRAFT", "IN_REVIEW", "REJECTED", "DRAFT", "IN_REVIEW",
             "APPROVED", "PUBLISHED">>[k]
      /\ hist[k + 1].status = hist[k + 1].tag
      /\ hist[k + 1].version =
           IF k >= 4 THEN hist[1].version + 1 ELSE hist[1].version

C11_Witness ==
  /\ Len(hist) = Len(DocScenario) + 1
  /\ \A i \in 1..Len(DocScenario) : hist[i + 1].action = DocScenario[i]
  /\ doc.state = "PUBLISHED"
  /\ doc.version = hist[1].version + 1


(* C12: every call completes normally; no action raises, whether it is a   *)
(* transition, inapplicable or redundant in the class it is invoked on.    *)
C12_NoCallRaises ==
  /\ ~last.threw
  /\ \A a \in OrderActions : ~OrderState(a, order).threw
  /\ \A a \in VendingActions : ~VendingState(a, machine).threw
  /\ \A a \in AdvancedOrderActions :
       ~AdvancedOrderState(a, advOrder).threw
       /\ ~AdvancedOrderState(a, paidOrder).threw
  /\ \A a \in DocumentActions, r \in Reasons : ~DocumentState(a, doc, r).threw
  /\ \A a \in SubscriptionActions : ~SubscriptionState(a, sub).threw

C12_Witness ==
  /\ last.ctx = "advOrder" /\ last.action = "refund"
  /\ last.before = "PROCESSING" /\ advOrder.state = "PROCESSING"
  /\ ~last.threw

(* C13: each context is in exactly one class of its lifecycle's fixed set  *)
(* and getStatus() returns a tag of that set: Beklemede / Odendi /         *)
(* Gonderildi for the order, the AdvancedOrderStateName, DocumentStateName *)
(* and SubscriptionStateName values for the others.                        *)
OrderStatusTags == {"Beklemede", "Odendi", "Gonderildi"}

C13_StatusInFixedSet ==
  /\ order.state \in OrderVariants
  /\ OrderState("status", order).ret \in OrderStatusTags
  /\ advOrder.state \in AdvancedOrderStateName
  /\ AdvancedOrderState("status", advOrder).ret \in AdvancedOrderStateName
  /\ paidOrder.state \in AdvancedOrderStateName
  /\ AdvancedOrderState("status", paidOrder).ret \in AdvancedOrderStateName
  /\ doc.state \in DocumentStateName
  /\ DocumentState("status", doc, "").ret \in DocumentStateName
  /\ sub.state \in SubscriptionStateName
  /\ SubscriptionState("status", sub).ret \in SubscriptionStateName
  /\ last.action = "status" =>
       returned \in
         CASE last.ctx = "order" -> OrderStatusTags
           [] last.ctx \in {"advOrder", "paidOrder"} -> AdvancedOrderStateName
           [] last.ctx = "doc" -> DocumentStateName
           [] last.ctx = "sub" -> SubscriptionStateName

C13_Witness ==
  /\ last.action = "status" /\ last.ctx = "paidOrder"
  /\ paidOrder.state = "REFUNDED" /\ returned = "REFUNDED"
  /\ advOrder.state = "PROCESSING"


(* C14: the class a call leaves the context in depends only on the class   *)
(* it was in and the method: any other payload (orderId, amount, title,    *)
(* version, planId, billingDay) and any other reject reason give the same  *)
(* successor, and two advanced orders in the same class have the same      *)
(* successor under every action.                                           *)
OrderIds == {"ORD-101", "ORD-102"}

Amounts == {29999, 15000}

Titles == {"API Rehberi", "Surum Notlari"}

PlanIds == {"pro-monthly", "basic-yearly"}

BillingDays == {1, 15}

C14_SuccessorIgnoresPayload ==
  /\ (last.ctx \in {"advOrder", "paidOrder"} /\ ActionCalled) =>
       \A id \in OrderIds, am \in Amounts :
         AdvancedOrderState(last.action,
            [state |-> last.before, orderId |-> id, amount |-> am]).state
           = StateOf(last.ctx)
  /\ (last.ctx = "doc" /\ ActionCalled) =>
       \A t \in Titles, v \in 1..MaxVersion, r \in Reasons :
         DocumentState(last.action,
            [state |-> last.before, title |-> t, version |-> v], r).state
           = doc.state
  /\ (last.ctx = "sub" /\ ActionCalled) =>
       \A p \in PlanIds, b \in BillingDays :
         SubscriptionState(last.action,
            [state |-> last.before, planId |-> p, billingDay |-> b]).state
           = sub.state
  /\ advOrder.state = paidOrder.state =>
       \A a \in AdvancedOrderActions :
         AdvancedOrderState(a, advOrder).state
           = AdvancedOrderState(a, paidOrder).state

C14_Witness ==
  /\ last.ctx = "doc" /\ last.action = "reject"
  /\ last.before = "IN_REVIEW" /\ doc.state = "REJECTED"
  /\ console[1][3] = "] Reddedildi"
  /\ console[1][4] = ": Eksik ornekler."
  /\ advOrder.state = "DELIVERED" /\ paidOrder.state = "DELIVERED"
  /\ advOrder.orderId # paidOrder.orderId

(* C15: getStatus() changes neither the state nor the payload of any       *)
(* context, so every later action has the outcome it would have had        *)
(* without the query.                                                      *)
C15_GetStatusPure ==
  [][ last'.action = "status" =>
        UNCHANGED <<order, machine, advOrder, paidOrder, doc, sub>> ]_vars

C15_Witness ==
  /\ last.action = "status" /\ last.ctx = "sub"
  /\ sub.state = "PAST_DUE" /\ returned = "PAST_DUE"
  /\ last.before = "PAST_DUE"

(* C16: a call on one context changes neither the state nor the payload of *)
(* any other context, also when advOrder and paidOrder were constructed in *)
(* the same class.                                                         *)
C16_OtherContextsUntouched ==
  [][ /\ last'.ctx # "order" => order' = order
      /\ last'.ctx # "machine" => machine' = machine
      /\ last'.ctx # "advOrder" => advOrder' = advOrder
      /\ last'.ctx # "paidOrder" => paidOrder' = paidOrder
      /\ last'.ctx # "doc" => doc' = doc
      /\ last'.ctx # "sub" => sub' = sub ]_vars

C16_Witness ==
  /\ last.ctx = "paidOrder" /\ last.action = "ship"
  /\ last.before = "PAID" /\ paidOrder.state = "SHIPPED"
  /\ advOrder.state = "PAID"


(* C19: in the document lifecycle a call changes the state exactly for     *)
(* DRAFT.submit -> IN_REVIEW, IN_REVIEW.approve -> APPROVED,               *)
(* IN_REVIEW.reject -> REJECTED, APPROVED.publish -> PUBLISHED and         *)
(* REJECTED.submit -> DRAFT; every other (class, action) pair leaves it    *)
(* unchanged.                                                              *)
C19_DocumentTransitions ==
  (last.ctx = "doc" /\ ActionCalled) =>
    doc.state =
      CASE last.before = "DRAFT"     /\ last.action = "submit"  -> "IN_REVIEW"
        [] last.before = "IN_REVIEW" /\ last.action = "approve" -> "APPROVED"
        [] last.before = "IN_REVIEW" /\ last.action = "reject"  -> "REJECTED"
        [] last.before = "APPROVED"  /\ last.action = "publish" -> "PUBLISHED"
        [] last.before = "REJECTED"  /\ last.action = "submit"  -> "DRAFT"
        [] OTHER -> last.before

C19_Witness ==
  /\ last.ctx = "doc" /\ last.action = "submit"
  /\ last.before = "APPROVED" /\ doc.state = "APPROVED"
  /\ doc.version = 2

(* C20: in the subscription lifecycle a call changes the state exactly for *)
(* TRIAL.activate/cancel, ACTIVE.paymentFailed/suspend/cancel,             *)
(* PAST_DUE.charge/paymentFailed/suspend/cancel and SUSPENDED.charge/      *)
(* cancel, to the successors listed; every other pair leaves it unchanged, *)
(* so two payment failures in a row take ACTIVE to SUSPENDED.              *)
C20_SubscriptionTransitions ==
  /\ (last.ctx = "sub" /\ ActionCalled) =>
       sub.state =
         CASE last.before = "TRIAL" /\ last.action = "activate" -> "ACTIVE"
           [] last.before = "TRIAL" /\ last.action = "cancel" -> "CANCELLED"
           [] last.before = "ACTIVE" /\ last.action = "paymentFailed" -> "PAST_DUE"
           [] last.before = "ACTIVE" /\ last.action = "suspend" -> "SUSPENDED"
           [] last.before = "ACTIVE" /\ last.action = "cancel" -> "CANCELLED"
           [] last.before = "PAST_DUE" /\ last.action = "charge" -> "ACTIVE"
           [] last.before = "PAST_DUE" /\ last.action = "paymentFailed" -> "SUSPENDED"
           [] last.before = "PAST_DUE" /\ last.action = "suspend" -> "SUSPENDED"
           [] last.before = "PAST_DUE" /\ last.action = "cancel" -> "CANCELLED"
           [] last.before = "SUSPENDED" /\ last.action = "charge" -> "ACTIVE"
           [] last.before = "SUSPENDED" /\ last.action = "cancel" -> "CANCELLED"
           [] OTHER -> last.before
  /\ (last.ctx = "sub" /\ last.action = "paymentFailed"
        /\ last.repeatOf = "ACTIVE") => sub.state = "SUSPENDED"

C20_Witness ==
  /\ last.ctx = "sub" /\ last.action = "paymentFailed"
  /\ last.repeatOf = "ACTIVE" /\ last.before = "PAST_DUE"
  /\ sub.state = "SUSPENDED"


C18_ThrottleRate ==
    /\ events # <<>> =>
         /\ Len(events) >= 2
         /\ events[1].kind = "call" /\ events[2].kind = "invoke"
    /\ \A j \in 1..Len(events) :
         events[j].kind = "invoke" =>
           /\ j > 1
           /\ events[j - 1].kind = "call"
           /\ events[j].args = events[j - 1].args
           /\ events[j].at = events[j - 1].at
    /\ \A i, j \in 1..Len(events) :
         (i < j /\ events[i].kind = "invoke" /\ events[j].kind = "invoke") =>
           events[j].at - events[i].at >= throttled.limit
    /\ \A k, i \in 1..Len(events) :
         (k < i /\ events[k].kind = "invoke" /\ events[i].kind = "call"
            /\ events[i].at < events[k].at + throttled.limit) =>
           (i < Len(events) => events[i + 1].kind = "call")

C18_Witness ==
  /\ Len(events) = 5
  /\ [i \in 1..5 |-> events[i].kind]
       = <<"call", "invoke", "call", "call", "invoke">>
  /\ events[3].at > events[1].at
  /\ events[3].at < events[1].at + throttled.limit
  /\ events[3].args = "ab" /\ events[5].args = "abc"


(* C21: in the advanced order lifecycle a call changes the state exactly   *)
(* for PENDING.cancel -> CANCELLED, PAID.cancel -> REFUNDED, PAID.ship ->  *)
(* SHIPPED, PAID.refund -> REFUNDED, PROCESSING.ship -> SHIPPED,           *)
(* SHIPPED.deliver -> DELIVERED and DELIVERED.refund -> REFUNDED; so an    *)
(* order becomes DELIVERED only from SHIPPED, REFUNDED only from PAID or   *)
(* DELIVERED, and cancelling a PAID order yields REFUNDED, not CANCELLED.  *)
C21_AdvancedOrderTransitions ==
  (last.ctx \in {"advOrder", "paidOrder"} /\ ActionCalled) =>
    /\ StateOf(last.ctx) =
         CASE last.before = "PENDING"    /\ last.action = "cancel"  -> "CANCELLED"
           [] last.before = "PAID"       /\ last.action = "cancel"  -> "REFUNDED"
           [] last.before = "PAID"       /\ last.action = "ship"    -> "SHIPPED"
           [] last.before = "PAID"       /\ last.action = "refund"  -> "REFUNDED"
           [] last.before = "PROCESSING" /\ last.action = "ship"    -> "SHIPPED"
           [] last.before = "SHIPPED"    /\ last.action = "deliver" -> "DELIVERED"
           [] last.before = "DELIVERED"  /\ last.action = "refund"  -> "REFUNDED"
           [] OTHER -> last.before
    /\ (StateOf(last.ctx) = "DELIVERED" /\ last.before # "DELIVERED")
         => last.before = "SHIPPED"
    /\ (StateOf(last.ctx) = "REFUNDED" /\ last.before # "REFUNDED")
         => last.before \in {"PAID", "DELIVERED"}
    /\ (last.before = "PAID" /\ last.action = "cancel")
         => StateOf(last.ctx) = "REFUNDED"

C21_Witness ==
  /\ last.ctx = "advOrder" /\ last.action = "ship"
  /\ last.before = "PROCESSING" /\ advOrder.state = "SHIPPED"
  /\ paidOrder.state = "REFUNDED"


\* The number of REJECTED -> DRAFT transitions in the recorded calls.
Resubmissions ==
  Cardinality({i \in 2..Len(hist) :
                 hist[i - 1].tag = "REJECTED" /\ hist[i].tag = "DRAFT"})

(* C22: ContentDoc.version is changed only by submit() on a REJECTED       *)
(* document, which adds exactly 1 and moves to DRAFT; so version is always *)
(* the initial version plus the number of REJECTED -> DRAFT transitions,   *)
(* it never decreases, and it stays as it is once the document is          *)
(* APPROVED or PUBLISHED.                                                  *)
C22_VersionCountsResubmissions ==
  /\ [](doc.version = hist[1].version + Resubmissions)
  /\ [][/\ doc'.version # doc.version =>
             /\ doc.state = "REJECTED" /\ last'.action = "submit"
             /\ doc'.version = doc.version + 1
             /\ doc'.state = "DRAFT"
        /\ (doc.state = "REJECTED" /\ last'.action = "submit") =>
             doc'.version = doc.version + 1
        /\ doc'.version >= doc.version
        /\ doc.state \in {"APPROVED", "PUBLISHED"} =>
             doc'.version = doc.version]_vars

C22_Witness ==
  /\ Resubmissions = 2
  /\ doc.version = hist[1].version + 2
  /\ doc.state = "DRAFT"
  /\ \E i \in 1..Len(hist) : hist[i].tag = "REJECTED" /\ hist[i].action = "approve"


(* C23: in a run of the document lifecycle that starts in DRAFT, a         *)
(* document is PUBLISHED only after having been APPROVED and becomes       *)
(* APPROVED only directly from IN_REVIEW; between REJECTED and a later     *)
(* APPROVED it is DRAFT and then IN_REVIEW again; once APPROVED it is      *)
(* never DRAFT, IN_REVIEW or REJECTED again.                               *)
C23_DocumentOrdering ==
  hist[1].tag = "DRAFT" =>
    /\ \A i \in 1..Len(hist) :
         hist[i].tag = "PUBLISHED" =>
           \E j \in 1..(i - 1) : hist[j].tag = "APPROVED"
    /\ \A i \in 2..Len(hist) :
         (hist[i].tag = "APPROVED" /\ hist[i - 1].tag # "APPROVED") =>
           hist[i - 1].tag = "IN_REVIEW"
    /\ \A i, k \in 1..Len(hist) :
         (i < k /\ hist[i].tag = "REJECTED" /\ hist[k].tag = "APPROVED") =>
           \E j, m \in (i + 1)..(k - 1) :
             j < m /\ hist[j].tag = "DRAFT" /\ hist[m].tag = "IN_REVIEW"
    /\ \A i, k \in 1..Len(hist) :
         (i < k /\ hist[i].tag = "APPROVED") =>
           hist[k].tag \notin {"DRAFT", "IN_REVIEW", "REJECTED"}

C23_Witness ==
  /\ hist[1].tag = "DRAFT"
  /\ doc.state = "PUBLISHED"
  /\ \E i \in 1..Len(hist) : hist[i].tag = "REJECTED"
  /\ hist[Len(hist)].action = "submit"


(* C24: Subscription.charge() returns true exactly when the subscription   *)
(* is ACTIVE after the call, which is exactly when it was ACTIVE, PAST_DUE *)
(* or SUSPENDED before it; in TRIAL and CANCELLED it returns false and     *)
(* leaves the state unchanged.                                             *)
C24_ChargeReturnsActive ==
  (last.ctx = "sub" /\ last.action = "charge") =>
    /\ returned \in BOOLEAN
    /\ returned <=> sub.state = "ACTIVE"
    /\ returned <=> last.before \in {"ACTIVE", "PAST_DUE", "SUSPENDED"}
    /\ last.before \in {"TRIAL", "CANCELLED"} =>
         (~returned /\ sub.state = last.before)

C24_Witness ==
  /\ last.ctx = "sub" /\ last.action = "charge"
  /\ last.before = "SUSPENDED" /\ sub.state = "ACTIVE"
  /\ returned = TRUE


(* C25: in the subscription lifecycle cancel(), called in any class,       *)
(* leaves the subscription CANCELLED; a CANCELLED subscription stays       *)
(* CANCELLED under every call; and a subscription that has left TRIAL      *)
(* never enters TRIAL again.                                               *)
C25_CancelAlwaysSucceeds ==
  [][ /\ (last'.ctx = "sub" /\ last'.action = "cancel")
           => sub'.state = "CANCELLED"
      /\ sub.state = "CANCELLED" => sub'.state = "CANCELLED"
      /\ sub.state # "TRIAL" => sub'.state # "TRIAL" ]_vars

C25_Witness ==
  /\ last.ctx = "sub" /\ last.action = "cancel"
  /\ last.before = "SUSPENDED" /\ sub.state = "CANCELLED"


\* The calls in which the machine took a coin, and those in which it gave
\* a drink, as announced on the console.
CoinsAccepted ==
  Cardinality({i \in 1..Len(hist) :
                 hist[i].out = << <<"  Para alindi. Icecek secebilirsiniz.">> >>})

DrinksDispensed ==
  Cardinality({i \in 1..Len(hist) :
                 hist[i].out = << <<"  Icecek verildi.">> >>})

(* C26: over any sequence of insertCoin/selectDrink calls from NoCoin the  *)
(* drinks dispensed never exceed the coins accepted; the difference is 1   *)
(* in HasCoin and 0 in NoCoin; insertCoin in HasCoin accepts no coin and   *)
(* selectDrink in NoCoin dispenses nothing, both leaving the state as it   *)
(* was.                                                                    *)
C26_DrinksPaidFor ==
  /\ DrinksDispensed <= CoinsAccepted
  /\ CoinsAccepted - DrinksDispensed =
       (IF machine.state = "HasCoin" THEN 1 ELSE 0)
  /\ machine.state \in {"NoCoin", "HasCoin"}
  /\ \A i \in 1..Len(hist) :
       /\ (hist[i].before = "HasCoin" /\ hist[i].action = "insertCoin") =>
            /\ hist[i].tag = "HasCoin"
            /\ hist[i].out = << <<"  Zaten para var. Icecek secin.">> >>
       /\ (hist[i].before = "NoCoin" /\ hist[i].action = "selectDrink") =>
            /\ hist[i].tag = "NoCoin"
            /\ hist[i].out = << <<"  Once para atin.">> >>

C26_Witness ==
  /\ CoinsAccepted = 2 /\ DrinksDispensed = 2
  /\ machine.state = "NoCoin"
  /\ \E i \in 1..Len(hist) :
       hist[i].before = "HasCoin" /\ hist[i].action = "insertCoin"
  /\ \E i \in 1..Len(hist) :
       hist[i].before = "NoCoin" /\ hist[i].action = "selectDrink"


(* C27: between two resetCounters() calls the number of sends to one       *)
(* recipient of one type never exceeds that type's limit (email 100,       *)
(* sms 10, push 50), also when several sendNotification calls for the same *)
(* recipient and type are in flight at once; a call made when the counter  *)
(* has reached the limit returns {success: false} without sending.         *)
C27_SendsWithinLimit ==
  \A k \in Recipients \X NotificationTypes : sent[k] <= limits(k[2])


(* C28: for throttle(func, limit, {leading, trailing}) with any of the     *)
(* four option combinations and a monotonic clock, any two invocations of  *)
(* func are at least limit apart, and at most one trailing timer is        *)
(* pending at any time (the one throttle's timeout refers to).             *)
C28_SpacingAndOneTimer ==
  /\ \A i, j \in 1..Len(events) :
       (i < j /\ events[i].kind = "invoke" /\ events[j].kind = "invoke") =>
         events[j].at - events[i].at >= throttled.limit
  /\ Cardinality(timers) <= 1
  /\ \A t \in timers : t.id = throttled.timeout
  /\ timers = {} => throttled.timeout = 0

C28_Witness ==
  /\ throttled.leading /\ throttled.trailing /\ throttled.limit = 2
  /\ Len(events) = 5
  /\ [i \in 1..5 |-> events[i].kind]
       = <<"call", "invoke", "call", "call", "invoke">>
  /\ events[3].args = "ab" /\ events[4].args = "a" /\ events[5].args = "ab"
  /\ events[5].at = events[2].at + 2
  /\ timers = {}


\* The increments completed among the first i recorded events.
CompletedBefore(i) ==
  Cardinality({j \in 1..(i - 1) : events[j].kind = "resolved"})

(* C29: with n increment() calls pending across their await no update is  *)
(* lost: the k-th increment to complete resolves with k, so the resolved   *)
(* values are 1..n without duplicates; getValue() is at every point the    *)
(* number of increments completed so far, and n once all have completed.   *)
C29_NoLostUpdate ==
  /\ resolved = [k \in 1..Len(resolved) |-> k]
  /\ count = Len(resolved)
  /\ \A i \in 1..Len(events) :
       events[i].kind = "getValue" => events[i].args = CompletedBefore(i)
  /\ timers = {} => count = CallsMade
  /\ Cardinality(timers) + count = CallsMade

C29_Witness ==
  /\ Len(events) >= 6
  /\ \A i \in 1..3 : events[i].kind = "call"
  /\ events[3].at < events[1].at + AwaitTicks
  /\ resolved = <<1, 2, 3>>
  /\ timers = {}
  /\ events[Len(events)].kind = "getValue" /\ events[Len(events)].args = 3


\* s is the sequence of the first Len(s) elements of t.
IsPrefix(s, t) == Len(s) <= Len(t) /\ s = SubSeq(t, 1, Len(s))

====
